---- MODULE Spec2Model ----
(***************************************************************************)
(* LLTI static lookup structures: SortedLookup, EytzingerLookup and        *)
(* VebLookup (include/llti).  A table object is a record of its member     *)
(* fields; build and find are modelled statement by statement.             *)
(* A std::vector is a sequence: C++ index i is sequence index i + 1.       *)
(***************************************************************************)
EXTENDS Integers, Sequences, FiniteSets, TLC

VARIABLES
    entries,          \* the input handed to build: sequence of <<key, value>>
    index_bits,       \* width of the vEB child index type (uint32_t), scaled
    int_bits,         \* width of int, the type ~i is cast to before ffs
    tables,           \* the table objects the program has constructed
    sortedLookup,     \* object id -> SortedLookup fields
    eytzingerLookup,  \* object id -> EytzingerLookup fields
    vebLookup,        \* object id -> VebLookup fields
    res,              \* the last completed call and what it returned
    readers,          \* reader thread -> the find call it is in, with its locals
    orderBook,        \* the OrderBook object (Orderbook/OrderBook6.cpp)
    vebLookupV1       \* the VebLookup object of the first version (veb_lookup.h)

vars == <<entries, index_bits, int_bits, tables,
          sortedLookup, eytzingerLookup, vebLookup, res, readers, orderBook,
          vebLookupV1>>

----------------------------------------------------------------------------
(* Bounds of the model *)

\* longest input drawn freely over Keys
MaxLen == 3
\* number of distinct keys of the free inputs
KeySpan == 3
\* largest N of the arithmetic-series inputs (keys 0, 3, 6, ...)
MaxSeries == 10
\* stand-in for the 32 bits of uint32_t in the ordinary specifications
IndexBitsScaled == 12
\* index width of the capacity specification
CapBits == 2
\* N of the series input that the concurrent readers search
ReaderSeries == 6
\* stand-in for the 32 bits of int in the int-width specification
IntBitsScaled == 2
\* MAX_ORDERS of the order book is 2^OrderBits (1 << 20 in the source)
OrderBits == 1
\* the order ids the callers use are 1..MaxOrderId
MaxOrderId == 4
\* number of price ticks of the book
PriceLevels == 2
\* largest quantity of an order
MaxQuantity == 2
\* bits of int where the two versions of VebLookup are compared
EvoIntBits == 4
\* longest input drawn freely over Keys where a table is built twice
RebuildLen == 1
\* longest series input where a table is built twice
RebuildSeries == 4
\* largest N of the inputs longer than the sort's insertion-sort threshold
LongSeries == 18

(* Program constants *)

\* bits of int
IntBits == 32
\* bits of uint64_t
WordBits == 64
\* ~uint64_t(0), read as a signed number
TOMBSTONE == -1
\* SIZE_MAX, read as a signed number
SIZE_MAX == -1
\* _S_threshold of the library's sort: ranges up to this length are left to
\* insertion sort
SortThreshold == 16

----------------------------------------------------------------------------
(* Vectors *)

At(vec, i) == vec[i + 1]

Resize(vec, size, dflt) ==
    IF size <= Len(vec) THEN SubSeq(vec, 1, size)
    ELSE vec \o [i \in 1..(size - Len(vec)) |-> dflt]

WithAt(vec, i, x) == [vec EXCEPT ![i + 1] = x]

MinOf(S) == CHOOSE x \in S : \A y \in S : x <= y

MaxOf(S) == CHOOSE x \in S : \A y \in S : y <= x

Nullptr == [found |-> FALSE, idx |-> 0, val |-> 0]

Ptr(vals, i) == [found |-> TRUE, idx |-> i, val |-> At(vals, i)]

----------------------------------------------------------------------------
(* std::sort with the comparator a.first < b.first, as the library of the  *)
(* build runs it: introsort down to ranges of SortThreshold elements, heap *)
(* sort where the depth limit runs out, then insertion sort.  The          *)
(* comparator sees keys only; where equal keys end up is what these steps  *)
(* leave.  A range is a vector v with the indices first and last.  Each    *)
(* loop over a vector has the vector of one iteration evaluated before the *)
(* next begins (the test of the length, which no step changes).            *)

KeyLess(a, b) == a[1] < b[1]

iter_swap(v, a, b) == WithAt(WithAt(v, a, At(v, b)), b, At(v, a))

\* std::__lg(n): the position of the highest set bit of n >= 1
Lg(n) == CHOOSE k \in 0..n : 2 ^ k <= n /\ n < 2 ^ (k + 1)

\* val = v[i]; move_backward(first, i, i + 1); v[first] = val
MoveToFirst(v, first, i) ==
    SubSeq(v, 1, first) \o <<At(v, i)>> \o SubSeq(v, first + 1, i)
        \o SubSeq(v, i + 2, Len(v))

\* __unguarded_linear_insert: next walks down from last - 1 while
\* comp(val, next) and each element it passes moves one place up; it stops at
\* the highest index below last whose element val is not less than, and val
\* goes in above it.  The caller guarantees there is such an index.
unguarded_linear_insert(v, last) ==
    LET val == At(v, last)
        next == MaxOf({j \in 0..(last - 1) : ~KeyLess(val, At(v, j))})
    IN MoveToFirst(v, next + 1, last)

\* the for loop of __insertion_sort, from iteration i on
RECURSIVE InsertionLoop(_, _, _, _)
InsertionLoop(v, first, i, last) ==
    IF i = last THEN v
    ELSE LET w == IF KeyLess(At(v, i), At(v, first))
                  THEN MoveToFirst(v, first, i)
                  ELSE unguarded_linear_insert(v, i)
         IN IF Len(w) = Len(v) THEN InsertionLoop(w, first, i + 1, last)
            ELSE w

insertion_sort(v, first, last) ==
    IF first = last THEN v ELSE InsertionLoop(v, first, first + 1, last)

RECURSIVE unguarded_insertion_sort(_, _, _)
unguarded_insertion_sort(v, first, last) ==
    IF first = last THEN v
    ELSE LET w == unguarded_linear_insert(v, first)
         IN IF Len(w) = Len(v) THEN unguarded_insertion_sort(w, first + 1, last)
            ELSE w

final_insertion_sort(v, first, last) ==
    IF last - first > SortThreshold
    THEN unguarded_insertion_sort(
             insertion_sort(v, first, first + SortThreshold),
             first + SortThreshold, last)
    ELSE insertion_sort(v, first, last)

move_median_to_first(v, result, a, b, c) ==
    IF KeyLess(At(v, a), At(v, b))
    THEN IF KeyLess(At(v, b), At(v, c)) THEN iter_swap(v, result, b)
         ELSE IF KeyLess(At(v, a), At(v, c)) THEN iter_swap(v, result, c)
         ELSE iter_swap(v, result, a)
    ELSE IF KeyLess(At(v, a), At(v, c)) THEN iter_swap(v, result, a)
    ELSE IF KeyLess(At(v, b), At(v, c)) THEN iter_swap(v, result, c)
    ELSE iter_swap(v, result, b)

\* while (comp(first, pivot)) ++first: the lowest index from first on whose
\* element is not less than the pivot; the median left of the range's middle
\* guarantees there is one
PartitionUp(v, first, pivot) ==
    MinOf({j \in first..(Len(v) - 1) : ~KeyLess(At(v, j), At(v, pivot))})

\* while (comp(pivot, last)) --last: the highest index from last down whose
\* element the pivot is not less than; the pivot itself is one
PartitionDown(v, last, pivot) ==
    MaxOf({j \in 0..last : ~KeyLess(At(v, pivot), At(v, j))})

\* returns the vector and the cut
RECURSIVE unguarded_partition(_, _, _, _)
unguarded_partition(v, first, last, pivot) ==
    LET f == PartitionUp(v, first, pivot)
        l == PartitionDown(v, last - 1, pivot)
    IN IF ~(f < l) THEN [v |-> v, cut |-> f]
       ELSE LET w == iter_swap(v, f, l)
            IN IF Len(w) = Len(v) THEN unguarded_partition(w, f + 1, l, pivot)
               ELSE [v |-> w, cut |-> f]

unguarded_partition_pivot(v, first, last) ==
    LET mid == first + (last - first) \div 2
    IN unguarded_partition(
           move_median_to_first(v, first, first + 1, mid, last - 1),
           first + 1, last, first)

\* the while loop of __push_heap; (holeIndex - 1) / 2 rounds towards zero
RECURSIVE push_heap(_, _, _, _, _)
push_heap(v, first, holeIndex, topIndex, value) ==
    LET parent == IF holeIndex = 0 THEN 0 ELSE (holeIndex - 1) \div 2
    IN IF holeIndex > topIndex /\ KeyLess(At(v, first + parent), value)
       THEN push_heap(WithAt(v, first + holeIndex, At(v, first + parent)),
                      first, parent, topIndex, value)
       ELSE WithAt(v, first + holeIndex, value)

\* the while loop of __adjust_heap on st = [v, holeIndex, secondChild]
RECURSIVE AdjustDown(_, _, _)
AdjustDown(st, first, len) ==
    IF st.secondChild < (len - 1) \div 2
    THEN LET right == 2 * (st.secondChild + 1)
             secondChild ==
                 IF KeyLess(At(st.v, first + right), At(st.v, first + (right - 1)))
                 THEN right - 1 ELSE right
         IN AdjustDown([v |-> WithAt(st.v, first + st.holeIndex,
                                     At(st.v, first + secondChild)),
                        holeIndex |-> secondChild,
                        secondChild |-> secondChild], first, len)
    ELSE st

adjust_heap(v, first, holeIndex, len, value) ==
    LET down == AdjustDown([v |-> v, holeIndex |-> holeIndex,
                            secondChild |-> holeIndex], first, len)
        last == IF len % 2 = 0 /\ down.secondChild = (len - 2) \div 2
                THEN LET secondChild == 2 * (down.secondChild + 1)
                     IN [v |-> WithAt(down.v, first + down.holeIndex,
                                      At(down.v, first + (secondChild - 1))),
                         holeIndex |-> secondChild - 1]
                ELSE [v |-> down.v, holeIndex |-> down.holeIndex]
    IN push_heap(last.v, first, last.holeIndex, holeIndex, value)

\* value = *result; *result = *first; then __adjust_heap from the top
pop_heap(v, first, last, result) ==
    adjust_heap(WithAt(v, result, At(v, first)), first, 0, last - first,
                At(v, result))

\* the while loop of __make_heap, from parent downwards
RECURSIVE MakeHeapLoop(_, _, _, _)
MakeHeapLoop(v, first, len, parent) ==
    LET w == adjust_heap(v, first, parent, len, At(v, first + parent))
    IN IF parent = 0 \/ Len(w) # Len(v) THEN w
       ELSE MakeHeapLoop(w, first, len, parent - 1)

make_heap(v, first, last) ==
    IF last - first < 2 THEN v
    ELSE MakeHeapLoop(v, first, last - first, (last - first - 2) \div 2)

RECURSIVE sort_heap(_, _, _)
sort_heap(v, first, last) ==
    IF last - first > 1
    THEN LET w == pop_heap(v, first, last - 1, last - 1)
         IN IF Len(w) = Len(v) THEN sort_heap(w, first, last - 1) ELSE w
    ELSE v

\* __partial_sort(first, last, last): __heap_select has nothing beyond middle
partial_sort(v, first, last) == sort_heap(make_heap(v, first, last), first, last)

RECURSIVE introsort_loop(_, _, _, _)
RECURSIVE IntrosortHalves(_, _, _, _)
\* with the partition p = [v, cut] made: the loop on [cut, last), then the
\* next iteration on [first, cut)
IntrosortHalves(p, first, last, depth_limit) ==
    introsort_loop(introsort_loop(p.v, p.cut, last, depth_limit),
                   first, p.cut, depth_limit)

introsort_loop(v, first, last, depth_limit) ==
    IF last - first > SortThreshold
    THEN IF depth_limit = 0 THEN partial_sort(v, first, last)
         ELSE IntrosortHalves(unguarded_partition_pivot(v, first, last),
                              first, last, depth_limit - 1)
    ELSE v

\* a sort that leaves the entries as they were handed over
SortEntries_NoSort(es) == es

\* std::sort(entries.begin(), entries.end(), comp)
SortEntries(es) ==
    IF es = <<>> THEN es
    ELSE final_insertion_sort(
             introsort_loop(es, 0, Len(es), Lg(Len(es)) * 2), 0, Len(es))

----------------------------------------------------------------------------
(* SortedLookup *)

\* builds counts the build calls on the object, built_from is the argument of
\* the last one
SortedFresh == [keys |-> <<>>, vals |-> <<>>, builds |-> 0, built_from |-> <<>>]

PushBackAll_Dedup(vec, sorted, field) ==
    vec \o SelectSeq([i \in 1..Len(sorted) |->
                        IF i > 1 /\ sorted[i][1] = sorted[i - 1][1]
                        THEN <<>> ELSE <<sorted[i][field]>>],
                     LAMBDA x : x # <<>>)

PushBackAll(vec, sorted, field) ==
    vec \o [i \in 1..Len(sorted) |-> sorted[i][field]]

SortedBuildOp(t, es) ==
    LET sorted == SortEntries(es)
    IN [t EXCEPT !.keys = PushBackAll(@, sorted, 1),
                 !.vals = PushBackAll(@, sorted, 2),
                 !.builds = @ + 1, !.built_from = es]

\* one iteration of std::lower_bound's bisection over [first, first + len)
LowerBoundStep_Upper(keys, l, val) ==
    LET half == l.len \div 2
        middle == l.first + half
    IN IF At(keys, middle) <= val
       THEN [first |-> middle + 1, len |-> l.len - half - 1]
       ELSE [first |-> l.first, len |-> half]

LowerBoundStep(keys, l, val) ==
    LET half == l.len \div 2
        middle == l.first + half
    IN IF At(keys, middle) < val
       THEN [first |-> middle + 1, len |-> l.len - half - 1]
       ELSE [first |-> l.first, len |-> half]

RECURSIVE LowerBoundLoop(_, _, _)
LowerBoundLoop(keys, l, val) ==
    IF l.len > 0 THEN LowerBoundLoop(keys, LowerBoundStep(keys, l, val), val)
    ELSE l.first

\* std::lower_bound(keys.begin(), keys.end(), target) - keys.begin()
LowerBound(keys, val) ==
    LowerBoundLoop(keys, [first |-> 0, len |-> Len(keys)], val)

\* the statements after the search: compare and return
SortedFinish_NoKeyCheck(t, it, target) ==
    IF it # Len(t.keys) THEN Ptr(t.vals, it) ELSE Nullptr

SortedFinish(t, it, target) ==
    IF it # Len(t.keys) /\ At(t.keys, it) = target
    THEN Ptr(t.vals, it)
    ELSE Nullptr

\* the index of the last key <= val, as std::upper_bound - 1 finds it
RECURSIVE LastNotAbove(_, _, _)
LastNotAbove(keys, i, val) ==
    IF i >= 0 /\ At(keys, i) > val THEN LastNotAbove(keys, i - 1, val) ELSE i

SortedFindOp_LastMatch(t, target) ==
    LET it == LastNotAbove(t.keys, Len(t.keys) - 1, target)
    IN IF it >= 0 /\ At(t.keys, it) = target
       THEN Ptr(t.vals, it)
       ELSE Nullptr

SortedFindOp(t, target) == SortedFinish(t, LowerBound(t.keys, target), target)

\* find is a const member function: a call leaves the object as it was
SortedFindEffect(t) == t

SortedSize(t) == Len(t.keys)

----------------------------------------------------------------------------
(* EytzingerLookup *)

\* fill_writes and fill_reads record the last build's fill: the positions of
\* keys and vals it wrote and the indices of sorted it read, in order
EytzingerFresh == [keys |-> <<>>, vals |-> <<>>, n |-> 0, builds |-> 0,
                   built_from |-> <<>>, fill_writes |-> <<>>,
                   fill_reads |-> <<>>]

\* a fill that emits the node before its left subtree
RECURSIVE fill_eytzinger_PreOrder(_, _, _, _)
fill_eytzinger_PreOrder(st, sorted, n, tree_idx) ==
    IF tree_idx > n THEN st
    ELSE LET m == [keys |-> WithAt(st.keys, tree_idx, At(sorted, st.sorted_idx)[1]),
                   vals |-> WithAt(st.vals, tree_idx, At(sorted, st.sorted_idx)[2]),
                   sorted_idx |-> st.sorted_idx + 1,
                   writes |-> Append(st.writes, tree_idx),
                   reads |-> Append(st.reads, st.sorted_idx)]
             l == fill_eytzinger_PreOrder(m, sorted, n, 2 * tree_idx)
         IN fill_eytzinger_PreOrder(l, sorted, n, 2 * tree_idx + 1)

\* st = [keys, vals, sorted_idx, writes, reads]; the recursion threads
\* sorted_idx by reference.  The test of the length, which no write changes,
\* has the node's write evaluated before the right subtree is entered.
RECURSIVE fill_eytzinger(_, _, _, _)
fill_eytzinger(st, sorted, n, tree_idx) ==
    IF tree_idx > n THEN st
    ELSE LET l == fill_eytzinger(st, sorted, n, 2 * tree_idx)
             m == [keys |-> WithAt(l.keys, tree_idx, At(sorted, l.sorted_idx)[1]),
                   vals |-> WithAt(l.vals, tree_idx, At(sorted, l.sorted_idx)[2]),
                   sorted_idx |-> l.sorted_idx + 1,
                   writes |-> Append(l.writes, tree_idx),
                   reads |-> Append(l.reads, l.sorted_idx)]
         IN IF Len(m.keys) = Len(st.keys)
            THEN fill_eytzinger(m, sorted, n, 2 * tree_idx + 1)
            ELSE m

\* a build that returns on an empty input before it sets n
EytzingerBuildOp_EarlyReturn(t, es) ==
    LET sorted == SortEntries(es)
        n == Len(es)
    IN IF n = 0
       THEN [t EXCEPT !.builds = @ + 1, !.built_from = es]
       ELSE LET st == fill_eytzinger(
                         [keys |-> Resize(t.keys, n + 1, 0),
                          vals |-> Resize(t.vals, n + 1, 0),
                          sorted_idx |-> 0, writes |-> <<>>,
                          reads |-> <<>>], sorted, n, 1)
            IN [t EXCEPT !.keys = st.keys, !.vals = st.vals,
                         !.n = n, !.builds = @ + 1, !.built_from = es,
                         !.fill_writes = st.writes, !.fill_reads = st.reads]

EytzingerBuildOp(t, es) ==
    LET sorted == SortEntries(es)
        n == Len(es)
    IN IF n = 0
       THEN [t EXCEPT !.n = 0, !.builds = @ + 1, !.built_from = es]
       ELSE LET st == fill_eytzinger(
                         [keys |-> Resize(t.keys, n + 1, 0),
                          vals |-> Resize(t.vals, n + 1, 0),
                          sorted_idx |-> 0, writes |-> <<>>,
                          reads |-> <<>>], sorted, n, 1)
            IN [t EXCEPT !.keys = st.keys, !.vals = st.vals,
                         !.n = n, !.builds = @ + 1, !.built_from = es,
                         !.fill_writes = st.writes, !.fill_reads = st.reads]

\* an iteration that does not double the index
EytzingerStep_NoDouble(keys, i, target) ==
    i + (IF At(keys, i) < target THEN 1 ELSE 0)

\* one iteration of the descent loop: i = 2 * i + (keys[i] < target)
EytzingerStep(keys, i, target) ==
    2 * i + (IF At(keys, i) < target THEN 1 ELSE 0)

RECURSIVE EytzingerDescend(_, _, _, _)
EytzingerDescend(keys, n, i, target) ==
    IF i <= n
    THEN EytzingerDescend(keys, n, EytzingerStep(keys, i, target), target)
    ELSE i

RECURSIVE TrailingOnes(_)
TrailingOnes(i) == IF i % 2 = 1 THEN 1 + TrailingOnes(i \div 2) ELSE 0

\* the position of the lowest zero bit of i, counted from 0
FfsOfComplement_Ctz(i, w) == TrailingOnes(i)

\* __builtin_ffs(static_cast<int>(~i)): one plus the position of the lowest
\* zero bit of i among its low w bits, 0 when those bits are all ones
FfsOfComplement(i, w) ==
    LET k == TrailingOnes(i) IN IF k >= w THEN 0 ELSE k + 1

EytzingerRecover_NoShift(i, w) == i

\* a recovery that undoes only the last step of the descent
EytzingerRecover_OneStep(i, w) == i \div 2

EytzingerRecover(i, w) == i \div (2 ^ FfsOfComplement(i, w))

\* the statements after the loop: recovery shift, compare and return
EytzingerFinish(t, i0, target, w) ==
    LET i == EytzingerRecover(i0, w)
    IN IF i > 0 /\ i <= t.n /\ At(t.keys, i) = target
       THEN Ptr(t.vals, i)
       ELSE Nullptr

EytzingerFindOp(t, target, w) ==
    IF t.n = 0 THEN Nullptr
    ELSE EytzingerFinish(t, EytzingerDescend(t.keys, t.n, 1, target), target, w)

EytzingerFindEffect(t) == t

EytzingerSize(t) == t.n

----------------------------------------------------------------------------
(* VebLookup *)

SearchData == [key |-> 0, children |-> <<0, 0>>]

\* placed records the slots the last build's placement loop wrote, in order
VebFresh == [tree |-> <<>>, vals |-> <<>>, n |-> 0, root_idx |-> 0,
             builds |-> 0, built_from |-> <<>>, placed |-> <<>>]

\* 64 - __builtin_clzll(n): the number of significant bits of n >= 1
RECURSIVE BitLength(_)
BitLength(n) == IF n = 0 THEN 0 ELSE 1 + BitLength(n \div 2)

\* static_cast<uint32_t>
CastIndex(x, w) == x % (2 ^ w)

\* numeric_limits<uint32_t>::max()
IndexMax(w) == 2 ^ w - 1

RECURSIVE build_veb_complete(_, _, _)
RECURSIVE build_veb_bottoms(_, _, _, _, _)
RECURSIVE build_veb_complete_SmallTop(_, _, _)
RECURSIVE build_veb_bottoms_SmallTop(_, _, _, _, _)
\* a split that gives the top block the smaller half of the height
build_veb_complete_SmallTop(bfs_idx, h, N) ==
    IF h = 0 \/ bfs_idx > N THEN <<>>
    ELSE IF h = 1 THEN <<bfs_idx>>
    ELSE LET top_h == h \div 2
             bottom_h == h - top_h
             num_bottom == 2 ^ top_h
             first_leaf_bfs == bfs_idx * (2 ^ top_h)
         IN build_veb_complete_SmallTop(bfs_idx, top_h, N)
            \o build_veb_bottoms_SmallTop(first_leaf_bfs, 0, num_bottom,
                                          bottom_h, N)

build_veb_bottoms_SmallTop(first_leaf_bfs, i, num_bottom, bottom_h, N) ==
    IF i >= num_bottom \/ first_leaf_bfs + i > N THEN <<>>
    ELSE build_veb_complete_SmallTop(first_leaf_bfs + i, bottom_h, N)
         \o build_veb_bottoms_SmallTop(first_leaf_bfs, i + 1, num_bottom,
                                       bottom_h, N)

build_veb_complete(bfs_idx, h, N) ==
    IF h = 0 \/ bfs_idx > N THEN <<>>
    ELSE IF h = 1 THEN <<bfs_idx>>
    ELSE LET bottom_h == h \div 2
             top_h == h - bottom_h
             num_bottom == 2 ^ top_h
             first_leaf_bfs == bfs_idx * (2 ^ top_h)
         IN build_veb_complete(bfs_idx, top_h, N)
            \o build_veb_bottoms(first_leaf_bfs, 0, num_bottom, bottom_h, N)

\* a loop that emits the bottom subtrees from the last to the first
RECURSIVE build_veb_bottoms_Reversed(_, _, _, _, _)
build_veb_bottoms_Reversed(first_leaf_bfs, i, num_bottom, bottom_h, N) ==
    IF i >= num_bottom \/ first_leaf_bfs + i > N THEN <<>>
    ELSE build_veb_bottoms_Reversed(first_leaf_bfs, i + 1, num_bottom,
                                    bottom_h, N)
         \o build_veb_complete(first_leaf_bfs + i, bottom_h, N)

\* the for loop over the bottom subtrees, from iteration i on
build_veb_bottoms(first_leaf_bfs, i, num_bottom, bottom_h, N) ==
    IF i >= num_bottom \/ first_leaf_bfs + i > N THEN <<>>
    ELSE build_veb_complete(first_leaf_bfs + i, bottom_h, N)
         \o build_veb_bottoms(first_leaf_bfs, i + 1, num_bottom, bottom_h, N)

\* a traversal that visits the node before its left subtree
RECURSIVE inorder_complete_PreOrder(_, _)
inorder_complete_PreOrder(bfs_idx, N) ==
    IF bfs_idx > N THEN <<>>
    ELSE <<bfs_idx>> \o inorder_complete_PreOrder(2 * bfs_idx, N)
         \o inorder_complete_PreOrder(2 * bfs_idx + 1, N)

RECURSIVE inorder_complete(_, _)
inorder_complete(bfs_idx, N) ==
    IF bfs_idx > N THEN <<>>
    ELSE inorder_complete(2 * bfs_idx, N) \o <<bfs_idx>>
         \o inorder_complete(2 * bfs_idx + 1, N)

\* vector of n + 1 zeros, then v[order[i]] = i + off for i = 0 .. n - 1; each
\* write is evaluated before the next iteration (the test of the length)
RECURSIVE InvertLoop(_, _, _, _, _)
InvertLoop(v, order, i, n, off) ==
    IF i >= n THEN v
    ELSE LET w == WithAt(v, At(order, i), i + off)
         IN IF Len(w) = Len(v) THEN InvertLoop(w, order, i + 1, n, off)
            ELSE w

\* an inversion that numbers the positions from 0 whatever off is
InvertOrder_ZeroBased(order, n, off) ==
    InvertLoop([b \in 1..(n + 1) |-> 0], order, 0, n, 0)

InvertOrder(order, n, off) ==
    InvertLoop([b \in 1..(n + 1) |-> 0], order, 0, n, off)

\* the loop for (bfs = 1; bfs <= n; ++bfs), from iteration bfs on; each
\* iteration's writes are evaluated before the next (the test of the length)
RECURSIVE VebPlaceLoop(_, _, _, _, _, _, _)
VebPlaceLoop(st, sorted, bfs_to_veb, bfs_to_sorted, bfs, n, w) ==
    IF bfs > n THEN st
    ELSE LET veb_idx == At(bfs_to_veb, bfs)
             sorted_idx == At(bfs_to_sorted, bfs)
             left_bfs == 2 * bfs
             right_bfs == 2 * bfs + 1
             node == [key |-> At(sorted, sorted_idx)[1],
                      children |->
                        << CastIndex(IF left_bfs <= n
                                     THEN At(bfs_to_veb, left_bfs) ELSE 0, w),
                           CastIndex(IF right_bfs <= n
                                     THEN At(bfs_to_veb, right_bfs) ELSE 0, w) >>]
             next == [tree |-> WithAt(st.tree, veb_idx, node),
                      vals |-> WithAt(st.vals, veb_idx,
                                      At(sorted, sorted_idx)[2]),
                      placed |-> Append(st.placed, veb_idx)]
         IN IF Len(next.tree) = Len(st.tree)
            THEN VebPlaceLoop(next, sorted, bfs_to_veb, bfs_to_sorted,
                              bfs + 1, n, w)
            ELSE next

\* n + 1 > numeric_limits<uint32_t>::max()
VebCapacityExceeded(n, w) == n + 1 > IndexMax(w)

VebBuildThrows(t, es, w) == Len(es) # 0 /\ VebCapacityExceeded(Len(es), w)

VebBuildOp(t, es, w) ==
    LET sorted == SortEntries(es)
        n == Len(es)
    IN IF n = 0 THEN [t EXCEPT !.n = 0, !.builds = @ + 1, !.built_from = es]
       ELSE IF VebCapacityExceeded(n, w)
       THEN [t EXCEPT !.n = n, !.builds = @ + 1, !.built_from = es]
       ELSE LET h == BitLength(n)
                veb_order == build_veb_complete(1, h, n)
                bfs_to_veb == InvertOrder(veb_order, n, 1)
                inorder_bfs == inorder_complete(1, n)
                bfs_to_sorted == InvertOrder(inorder_bfs, n, 0)
                st == VebPlaceLoop(
                        [tree |-> Resize(t.tree, n + 1, SearchData),
                         vals |-> Resize(t.vals, n + 1, 0),
                         placed |-> <<>>],
                        sorted, bfs_to_veb, bfs_to_sorted, 1, n, w)
            IN [t EXCEPT !.tree = st.tree, !.vals = st.vals, !.n = n,
                         !.root_idx = CastIndex(At(bfs_to_veb, 1), w),
                         !.builds = @ + 1, !.built_from = es,
                         !.placed = st.placed]

VebStep_Strict(tree, l, target) ==
    LET key == At(tree, l.curr).key
    IN [candidate |-> IF target < key THEN l.curr ELSE l.candidate,
        curr |-> At(At(tree, l.curr).children,
                    IF key < target THEN 1 ELSE 0)]

\* an iteration that keeps the first candidate it has found
VebStep_KeepFirst(tree, l, target) ==
    LET key == At(tree, l.curr).key
    IN [candidate |-> IF target <= key /\ l.candidate = 0 THEN l.curr
                      ELSE l.candidate,
        curr |-> At(At(tree, l.curr).children,
                    IF key < target THEN 1 ELSE 0)]

\* an iteration that goes right at a key equal to the target
VebStep_RightOnEqual(tree, l, target) ==
    LET key == At(tree, l.curr).key
    IN [candidate |-> IF target <= key THEN l.curr ELSE l.candidate,
        curr |-> At(At(tree, l.curr).children,
                    IF key <= target THEN 1 ELSE 0)]

\* one iteration of the descent loop on locals l = [curr, candidate]
VebStep(tree, l, target) ==
    LET key == At(tree, l.curr).key
    IN [candidate |-> IF target <= key THEN l.curr ELSE l.candidate,
        curr |-> At(At(tree, l.curr).children,
                    IF key < target THEN 1 ELSE 0)]

RECURSIVE VebDescend(_, _, _)
VebDescend(tree, l, target) ==
    IF l.curr # 0 THEN VebDescend(tree, VebStep(tree, l, target), target)
    ELSE l

\* the statements after the loop: compare and return
VebFinish(t, l, target) ==
    IF l.candidate # 0 /\ At(t.tree, l.candidate).key = target
    THEN Ptr(t.vals, l.candidate)
    ELSE Nullptr

VebFindOp(t, target) ==
    IF t.n = 0 THEN Nullptr
    ELSE VebFinish(t, VebDescend(t.tree,
                                 [curr |-> t.root_idx, candidate |-> 0],
                                 target), target)

\* a find that remembers in root_idx where the search last was
VebFindEffect_Finger(t, l) ==
    IF l.curr # 0 THEN [t EXCEPT !.root_idx = l.curr] ELSE t

\* find is a const member function: an iteration, with locals l, writes no
\* member
VebFindEffect(t, l) == t

VebSize(t) == t.n

----------------------------------------------------------------------------
(* VebLookup, first version (veb_lookup.h): left and right fields, a       *)
(* branching find, and int for every index the build computes.  An operator *)
(* of the build returns with its result whether an int operation overflowed *)

SearchDataV1 == [key |-> 0, left |-> 0, right |-> 0]

\* status is "crashed" once a build has ended the process
VebFreshV1 == [tree |-> <<>>, vals |-> <<>>, n |-> 0, root_idx |-> 0,
               builds |-> 0, built_from |-> <<>>, status |-> "ok",
               overflowed |-> FALSE]

\* x >= 0 is above the largest int of w bits
IntOverflows(x, w) == BitLength(x) >= w

RECURSIVE build_veb_complete_v1(_, _, _, _)
RECURSIVE build_veb_bottoms_v1(_, _, _, _, _, _)
build_veb_complete_v1(bfs_idx, h, N, w) ==
    IF h = 0 \/ bfs_idx > N THEN [order |-> <<>>, overflowed |-> FALSE]
    ELSE IF h = 1 THEN [order |-> <<bfs_idx>>, overflowed |-> FALSE]
    ELSE LET bottom_h == h \div 2
             top_h == h - bottom_h
             num_bottom == 2 ^ top_h
             first_leaf_bfs == bfs_idx * (2 ^ top_h)
             top == build_veb_complete_v1(bfs_idx, top_h, N, w)
             bottoms == build_veb_bottoms_v1(first_leaf_bfs, 0, num_bottom,
                                             bottom_h, N, w)
         IN [order |-> top.order \o bottoms.order,
             overflowed |-> \/ top.overflowed
                            \/ bottoms.overflowed
                            \/ IntOverflows(num_bottom, w)
                            \/ IntOverflows(first_leaf_bfs, w)]

build_veb_bottoms_v1(first_leaf_bfs, i, num_bottom, bottom_h, N, w) ==
    IF i >= num_bottom \/ first_leaf_bfs + i > N
    THEN [order |-> <<>>,
          overflowed |-> i < num_bottom /\ IntOverflows(first_leaf_bfs + i, w)]
    ELSE LET one == build_veb_complete_v1(first_leaf_bfs + i, bottom_h, N, w)
             rest == build_veb_bottoms_v1(first_leaf_bfs, i + 1, num_bottom,
                                          bottom_h, N, w)
         IN [order |-> one.order \o rest.order,
             overflowed |-> one.overflowed \/ rest.overflowed]

RECURSIVE inorder_complete_v1(_, _, _)
inorder_complete_v1(bfs_idx, N, w) ==
    IF bfs_idx > N THEN [order |-> <<>>, overflowed |-> FALSE]
    ELSE LET l == inorder_complete_v1(2 * bfs_idx, N, w)
             r == inorder_complete_v1(2 * bfs_idx + 1, N, w)
         IN [order |-> l.order \o <<bfs_idx>> \o r.order,
             overflowed |-> \/ l.overflowed
                            \/ r.overflowed
                            \/ IntOverflows(2 * bfs_idx + 1, w)]

\* the loop for (int bfs = 1; bfs <= static_cast<int>(n); ++bfs), from
\* iteration bfs on; iw is the width of the index type of left and right
RECURSIVE VebPlaceLoopV1(_, _, _, _, _, _, _, _)
VebPlaceLoopV1(st, sorted, bfs_to_veb, bfs_to_sorted, bfs, n, w, iw) ==
    IF bfs > n THEN st
    ELSE LET veb_idx == At(bfs_to_veb, bfs)
             sorted_idx == At(bfs_to_sorted, bfs)
             left_bfs == 2 * bfs
             right_bfs == 2 * bfs + 1
             node == [key |-> At(sorted, sorted_idx)[1],
                      left |-> CastIndex(IF left_bfs <= n
                                         THEN At(bfs_to_veb, left_bfs)
                                         ELSE 0, iw),
                      right |-> CastIndex(IF right_bfs <= n
                                          THEN At(bfs_to_veb, right_bfs)
                                          ELSE 0, iw)]
         IN VebPlaceLoopV1(
              [tree |-> WithAt(st.tree, veb_idx, node),
               vals |-> WithAt(st.vals, veb_idx, At(sorted, sorted_idx)[2]),
               overflowed |-> st.overflowed \/ IntOverflows(right_bfs, w)],
              sorted, bfs_to_veb, bfs_to_sorted, bfs + 1, n, w, iw)

\* the build as it runs when every int operation yields its mathematical
\* value; overflowed tells whether one of them left the range of int
VebBuildOpV1(t, es, w, iw) ==
    LET sorted == SortEntries(es)
        n == Len(es)
    IN IF n = 0 THEN [t EXCEPT !.n = 0, !.builds = @ + 1, !.built_from = es]
       ELSE LET h == BitLength(n)
                veb_order == build_veb_complete_v1(1, h, n, w)
                bfs_to_veb == InvertOrder(veb_order.order, n, 1)
                inorder_bfs == inorder_complete_v1(1, n, w)
                bfs_to_sorted == InvertOrder(inorder_bfs.order, n, 0)
                st == VebPlaceLoopV1(
                        [tree |-> Resize(t.tree, n + 1, SearchDataV1),
                         vals |-> Resize(t.vals, n + 1, 0),
                         overflowed |-> FALSE],
                        sorted, bfs_to_veb, bfs_to_sorted, 1, n, w, iw)
            IN [t EXCEPT !.tree = st.tree, !.vals = st.vals, !.n = n,
                         !.root_idx = CastIndex(At(bfs_to_veb, 1), iw),
                         !.builds = @ + 1, !.built_from = es,
                         !.overflowed = \/ veb_order.overflowed
                                        \/ inorder_bfs.overflowed
                                        \/ st.overflowed]

\* signed overflow is undefined: the build either goes on with the
\* mathematical values or ends the process
OverflowOutcomes == {"wide", "crash"}

VebBuildOutcomeV1(t, es, w, iw, outcome) ==
    LET built == VebBuildOpV1(t, es, w, iw)
    IN IF built.overflowed /\ outcome = "crash"
       THEN [t EXCEPT !.n = Len(es), !.builds = @ + 1, !.built_from = es,
                      !.status = "crashed", !.overflowed = TRUE]
       ELSE built

\* one iteration of the branching descent loop on locals l
VebStepV1(tree, l, target) ==
    LET key == At(tree, l.curr).key
    IN IF target <= key
       THEN [candidate |-> l.curr, curr |-> At(tree, l.curr).left]
       ELSE [candidate |-> l.candidate, curr |-> At(tree, l.curr).right]

RECURSIVE VebDescendV1(_, _, _)
VebDescendV1(tree, l, target) ==
    IF l.curr # 0 THEN VebDescendV1(tree, VebStepV1(tree, l, target), target)
    ELSE l

VebFinishV1(t, l, target) ==
    IF l.candidate # 0 /\ At(t.tree, l.candidate).key = target
    THEN Ptr(t.vals, l.candidate)
    ELSE Nullptr

VebFindOpV1(t, target) ==
    IF t.n = 0 THEN Nullptr
    ELSE VebFinishV1(t, VebDescendV1(t.tree,
                                     [curr |-> t.root_idx, candidate |-> 0],
                                     target), target)

----------------------------------------------------------------------------
(* OrderMap: open addressing, linear probing, tombstones *)

MAX_ORDERS == 2 ^ OrderBits

CAPACITY == MAX_ORDERS * 2

\* idx & MASK for MASK = CAPACITY - 1, CAPACITY a power of two
Masked(idx) == idx % CAPACITY

\* a uint64_t as its bits, lowest first; x is below 2^30
ToBits(x) ==
    [b \in 1..WordBits |-> IF b > 30 THEN 0 ELSE (x \div (2 ^ (b - 1))) % 2]

\* x >> k
ShiftRight(bits, k) ==
    [b \in 1..WordBits |-> IF b + k <= WordBits THEN bits[b + k] ELSE 0]

\* x ^ y
Xor(x, y) == [b \in 1..WordBits |-> (x[b] + y[b]) % 2]

RECURSIVE SumTo(_, _)
SumTo(f, n) == IF n = 0 THEN 0 ELSE f[n] + SumTo(f, n - 1)

\* the bytes of a word, lowest first
ToBytes(bits) ==
    [j \in 1..(WordBits \div 8) |->
        SumTo([b \in 1..8 |-> bits[8 * (j - 1) + b] * 2 ^ (b - 1)], 8)]

FromBytes(bytes) ==
    [b \in 1..WordBits |-> (bytes[(b - 1) \div 8 + 1] \div 2 ^ ((b - 1) % 8)) % 2]

\* byte k and up of the product x * c modulo 2^64, carry coming in
RECURSIVE MulBytes(_, _, _, _)
MulBytes(x, c, k, carry) ==
    IF k > WordBits \div 8 THEN <<>>
    ELSE LET col == carry + SumTo([j \in 1..k |-> x[j] * c[k + 1 - j]], k)
         IN <<col % 256>> \o MulBytes(x, c, k + 1, col \div 256)

\* x * c in uint64_t, c given by its bytes
Times(bits, c) == FromBytes(MulBytes(ToBytes(bits), c, 1, 0))

\* 0xbf58476d1ce4e5b9 and 0x94d049bb133111eb, lowest byte first
HashMul1 == <<185, 229, 228, 28, 109, 71, 88, 191>>

HashMul2 == <<235, 17, 49, 19, 187, 73, 208, 148>>

\* splitmix64 finalizer
hash(x) ==
    LET a == Xor(ToBits(x), ShiftRight(ToBits(x), 30))
        b == Times(a, HashMul1)
        c == Xor(b, ShiftRight(b, 27))
        d == Times(c, HashMul2)
    IN Xor(d, ShiftRight(d, 31))

\* hash(key) & MASK for the ids the callers use
HashSlot ==
    [key \in 0..MaxOrderId |->
        SumTo([b \in 1..(OrderBits + 1) |-> hash(key)[b] * 2 ^ (b - 1)],
              OrderBits + 1)]

Slot == [key |-> 0, value |-> 0]

\* the probing loops visit slot after slot; after CAPACITY slots without an
\* empty one and without the key they go round the table for ever
RECURSIVE InsertProbe(_, _, _, _, _, _)
InsertProbe(slots, key, value, idx, first_tombstone, steps) ==
    IF steps >= CAPACITY THEN [hung |-> TRUE, slots |-> slots]
    ELSE IF At(slots, idx).key # 0
    THEN IF At(slots, idx).key = TOMBSTONE
         THEN InsertProbe(slots, key, value, Masked(idx + 1),
                          IF first_tombstone = SIZE_MAX THEN idx
                          ELSE first_tombstone, steps + 1)
         ELSE IF At(slots, idx).key = key
         THEN [hung |-> FALSE,
               slots |-> WithAt(slots, idx, [At(slots, idx) EXCEPT !.value = value])]
         ELSE InsertProbe(slots, key, value, Masked(idx + 1),
                          first_tombstone, steps + 1)
    ELSE LET target == IF first_tombstone # SIZE_MAX THEN first_tombstone
                       ELSE idx
         IN [hung |-> FALSE,
             slots |-> WithAt(slots, target, [key |-> key, value |-> value])]

MapInsert(slots, key, value) ==
    InsertProbe(slots, key, value, HashSlot[key], SIZE_MAX, 0)

\* the slot a lookup of key stops at: found, or not found at an empty slot
RECURSIVE FindProbe(_, _, _, _)
FindProbe(slots, key, idx, steps) ==
    IF steps >= CAPACITY THEN [hung |-> TRUE, found |-> FALSE, idx |-> idx]
    ELSE IF At(slots, idx).key # 0
    THEN IF At(slots, idx).key = key
         THEN [hung |-> FALSE, found |-> TRUE, idx |-> idx]
         ELSE FindProbe(slots, key, Masked(idx + 1), steps + 1)
    ELSE [hung |-> FALSE, found |-> FALSE, idx |-> idx]

MapFind(slots, key) == FindProbe(slots, key, HashSlot[key], 0)

MapErase(slots, key) ==
    LET f == MapFind(slots, key)
    IN [hung |-> f.hung,
        slots |-> IF f.found
                  THEN WithAt(slots, f.idx,
                              [At(slots, f.idx) EXCEPT !.key = TOMBSTONE])
                  ELSE slots]

----------------------------------------------------------------------------
(* OrderBook *)

Order == [order_id |-> 0, price |-> 0, quantity |-> 0]

\* the object after OrderBook(min_tick, max_tick).  status is "ok" while the
\* calls return; live is the set of ids added and not cancelled since
BookFresh(min_tick, max_tick) ==
    [price_min |-> min_tick,
     num_levels |-> max_tick - min_tick + 1,
     volume_levels |-> [p \in 1..(max_tick - min_tick + 1) |-> 0],
     order_pool |-> [p \in 1..MAX_ORDERS |-> Order],
     pool_count |-> 0,
     freelist |-> [p \in 1..MAX_ORDERS |-> 0],
     freelist_top |-> 0,
     slots |-> [p \in 1..CAPACITY |-> Slot],
     status |-> "ok",
     live |-> {}]

PriceInRange(b, price) ==
    price >= b.price_min /\ price < b.price_min + b.num_levels

\* alloc_index finds neither a recycled index nor room in the pool
PoolExhausted(b) == b.freelist_top = 0 /\ b.pool_count >= MAX_ORDERS

\* alloc_index: the index returned and the allocator fields after it
AllocIndex(b) ==
    IF b.freelist_top > 0
    THEN [idx |-> At(b.freelist, b.freelist_top - 1),
          book |-> [b EXCEPT !.freelist_top = @ - 1]]
    ELSE [idx |-> b.pool_count, book |-> [b EXCEPT !.pool_count = @ + 1]]

FreeIndex(b, idx) ==
    [b EXCEPT !.freelist = WithAt(@, b.freelist_top, idx),
              !.freelist_top = @ + 1]

AddVolume(b, price, quantity) ==
    [b EXCEPT !.volume_levels =
        WithAt(@, price - b.price_min, At(@, price - b.price_min) + quantity)]

\* failed is what becomes of the call when the assert in alloc_index does
\* not hold: "aborted" with asserts compiled in, "undefined" without
AddOrderOp(b, order_id, price, quantity, failed) ==
    IF PoolExhausted(b) THEN [b EXCEPT !.status = failed]
    ELSE LET a == AllocIndex(b)
             pooled == [a.book EXCEPT
                          !.order_pool = WithAt(@, a.idx,
                              [order_id |-> order_id, price |-> price,
                               quantity |-> quantity]),
                          !.live = @ \cup {order_id}]
             ins == MapInsert(pooled.slots, order_id, a.idx)
         IN IF ins.hung THEN [pooled EXCEPT !.status = "hung"]
            ELSE AddVolume([pooled EXCEPT !.slots = ins.slots], price, quantity)

CancelOrderOp(b, order_id) ==
    LET f == MapFind(b.slots, order_id)
    IN IF f.hung THEN [b EXCEPT !.status = "hung"]
       ELSE IF ~f.found THEN [b EXCEPT !.live = @ \ {order_id}]
       ELSE LET idx == At(b.slots, f.idx).value
                order == At(b.order_pool, idx)
                vol == AddVolume(b, order.price, 0 - order.quantity)
                zeroed == [vol EXCEPT
                             !.order_pool = WithAt(@, idx,
                                 [order EXCEPT !.quantity = 0]),
                             !.slots = MapErase(@, order_id).slots,
                             !.live = @ \ {order_id}]
            IN FreeIndex(zeroed, idx)

ModifyOrderOp(b, order_id, new_price, new_quantity) ==
    LET f == MapFind(b.slots, order_id)
    IN IF f.hung THEN [b EXCEPT !.status = "hung"]
       ELSE IF ~f.found THEN b
       ELSE LET idx == At(b.slots, f.idx).value
                order == At(b.order_pool, idx)
                vol == AddVolume(b, order.price, 0 - order.quantity)
                moved == [vol EXCEPT
                            !.order_pool = WithAt(@, idx,
                                [order EXCEPT !.price = new_price,
                                              !.quantity = new_quantity])]
            IN AddVolume(moved, new_price, new_quantity)

num_orders(b) == b.pool_count - b.freelist_top

get_volume_at_price(b, price) == At(b.volume_levels, price - b.price_min)

----------------------------------------------------------------------------
(* Inputs *)

Keys == {k - 2 : k \in 1..KeySpan}

\* the value given to the entry at input position p
ValueAt(p) == 100 * p

MakeEntries(ks) == [p \in 1..Len(ks) |-> <<ks[p], ValueAt(p)>>]

FreeKeySeqs == UNION {[1..n -> Keys] : n \in 0..MaxLen}

\* keys 0, 3, 6, ... handed over in descending order
SeriesDown(n) == [p \in 1..n |-> 3 * (n - p)]

\* every key of the series twice: 0, 0, 3, 3, 6, ...
SeriesTwice(n) == [p \in 1..n |-> 3 * ((p - 1) \div 2)]

\* one key, 5, in every entry
SeriesSame(n) == [p \in 1..n |-> 5]

\* inputs on which the sort partitions before it runs insertion sort
LongKeySeqs == {SeriesTwice(n) : n \in (SortThreshold + 1)..LongSeries}
               \cup {SeriesSame(n) : n \in (SortThreshold + 1)..LongSeries}

SeriesKeySeqs == {SeriesDown(n) : n \in 1..MaxSeries}
                 \cup {SeriesTwice(n) : n \in 1..MaxSeries}
                 \cup LongKeySeqs

InputKeys(es) == {es[p][1] : p \in 1..Len(es)}

Occurrences(es, k) == {p \in 1..Len(es) : es[p][1] = k}

DistinctKeys(es) == \A k \in InputKeys(es) : Cardinality(Occurrences(es, k)) = 1

\* the targets a caller queries: every key from just below the smallest
\* stored key to just above the largest
QueryKeys(es) ==
    IF es = <<>> THEN Keys
    ELSE (MinOf(InputKeys(es)) - 1)..(MaxOf(InputKeys(es)) + 1)

----------------------------------------------------------------------------
(* The program: table objects, build and find calls *)

Obj == {"a", "b"}

Layouts == {"sorted", "eytzinger", "veb"}

NoCall == [op |-> "none", layout |-> "none", obj |-> "none", target |-> 0,
           ret |-> Nullptr, threw |-> FALSE]

BuildCall(layout, o, threw) ==
    [op |-> "build", layout |-> layout, obj |-> o, target |-> 0,
     ret |-> Nullptr, threw |-> threw]

FindCall(layout, o, target, ret) ==
    [op |-> "find", layout |-> layout, obj |-> o, target |-> target,
     ret |-> ret, threw |-> FALSE]

\* the threads that call find concurrently
Readers == {"r1", "r2"}

\* the locals of a find call; steps counts the loop iterations it has run
NoLocals == [first |-> 0, len |-> 0, i |-> 0, curr |-> 0, candidate |-> 0,
             steps |-> 0]

Idle == [pc |-> "idle", layout |-> "none", obj |-> "none", target |-> 0,
         l |-> NoLocals, ret |-> Nullptr]

FreshTables ==
    /\ sortedLookup = [o \in Obj |-> SortedFresh]
    /\ eytzingerLookup = [o \in Obj |-> EytzingerFresh]
    /\ vebLookup = [o \in Obj |-> VebFresh]
    /\ res = NoCall
    /\ readers = [r \in Readers |-> Idle]
    /\ orderBook = BookFresh(0, PriceLevels - 1)
    /\ vebLookupV1 = VebFreshV1

\* one table of each layout, built from one input
Init ==
    /\ entries \in {MakeEntries(ks) : ks \in FreeKeySeqs \cup SeriesKeySeqs}
    /\ index_bits = IndexBitsScaled
    /\ int_bits = IntBits
    /\ tables = {<<l, "a">> : l \in Layouts}
    /\ FreshTables

\* no find call is in progress on table o of the layout
Quiet(layout, o) ==
    \A r \in Readers : ~(readers[r].layout = layout /\ readers[r].obj = o)

SortedBuild(o) ==
    /\ <<"sorted", o>> \in tables
    /\ sortedLookup[o].builds = 0
    /\ Quiet("sorted", o)
    /\ sortedLookup' = [sortedLookup EXCEPT ![o] = SortedBuildOp(@, entries)]
    /\ res' = BuildCall("sorted", o, FALSE)
    /\ UNCHANGED <<entries, index_bits, int_bits, tables, orderBook, vebLookupV1,
                   eytzingerLookup, vebLookup, readers>>

EytzingerBuild(o) ==
    /\ <<"eytzinger", o>> \in tables
    /\ eytzingerLookup[o].builds = 0
    /\ Quiet("eytzinger", o)
    /\ eytzingerLookup' =
            [eytzingerLookup EXCEPT ![o] = EytzingerBuildOp(@, entries)]
    /\ res' = BuildCall("eytzinger", o, FALSE)
    /\ UNCHANGED <<entries, index_bits, int_bits, tables, orderBook, vebLookupV1,
                   sortedLookup, vebLookup, readers>>

VebBuild(o) ==
    /\ <<"veb", o>> \in tables
    /\ vebLookup[o].builds = 0
    /\ Quiet("veb", o)
    /\ vebLookup' =
            [vebLookup EXCEPT ![o] = VebBuildOp(@, entries, index_bits)]
    /\ res' = BuildCall("veb", o, VebBuildThrows(vebLookup[o], entries, index_bits))
    /\ UNCHANGED <<entries, index_bits, int_bits, tables, orderBook, vebLookupV1,
                   sortedLookup, eytzingerLookup, readers>>

\* a whole find call by the one caller of the sequential specifications
SortedFind(o, target) ==
    /\ <<"sorted", o>> \in tables
    /\ res' = FindCall("sorted", o, target, SortedFindOp(sortedLookup[o], target))
    /\ sortedLookup' = [sortedLookup EXCEPT ![o] = SortedFindEffect(@)]
    /\ UNCHANGED <<entries, index_bits, int_bits, tables, orderBook, vebLookupV1,
                   eytzingerLookup, vebLookup, readers>>

EytzingerFind(o, target) ==
    /\ <<"eytzinger", o>> \in tables
    /\ res' = FindCall("eytzinger", o, target,
                       EytzingerFindOp(eytzingerLookup[o], target, int_bits))
    /\ eytzingerLookup' = [eytzingerLookup EXCEPT ![o] = EytzingerFindEffect(@)]
    /\ UNCHANGED <<entries, index_bits, int_bits, tables, orderBook, vebLookupV1,
                   sortedLookup, vebLookup, readers>>

VebFind(o, target) ==
    /\ <<"veb", o>> \in tables
    /\ res' = FindCall("veb", o, target, VebFindOp(vebLookup[o], target))
    /\ vebLookup' = [vebLookup EXCEPT ![o] =
                        VebFindEffect(@, [curr |-> 0, candidate |-> 0])]
    /\ UNCHANGED <<entries, index_bits, int_bits, tables, orderBook, vebLookupV1,
                   sortedLookup, eytzingerLookup, readers>>

Next ==
    \E o \in Obj :
        \/ SortedBuild(o)
        \/ EytzingerBuild(o)
        \/ VebBuild(o)
        \/ \E target \in QueryKeys(entries) :
              \/ SortedFind(o, target)
              \/ EytzingerFind(o, target)
              \/ VebFind(o, target)

Spec == Init /\ [][Next]_vars

TableOf(l, o) ==
    IF l = "sorted" THEN sortedLookup[o]
    ELSE IF l = "eytzinger" THEN eytzingerLookup[o]
    ELSE vebLookup[o]

\* two tables of one layout, built from the same input
InitTwin ==
    /\ entries \in {MakeEntries(ks) : ks \in FreeKeySeqs}
    /\ index_bits = IndexBitsScaled
    /\ int_bits = IntBits
    /\ \E l \in Layouts : tables = {<<l, "a">>, <<l, "b">>}
    /\ FreshTables

IndexPermutations(n) ==
    {f \in [1..n -> 1..n] : \A i, j \in 1..n : f[i] = f[j] => i = j}

AllBuilt ==
    /\ \A x \in tables : x[1] = "sorted" => sortedLookup[x[2]].builds >= 1
    /\ \A x \in tables : x[1] = "eytzinger" => eytzingerLookup[x[2]].builds >= 1
    /\ \A x \in tables : x[1] = "veb" => vebLookup[x[2]].builds >= 1

\* the caller hands the entries over in another order, while a table is
\* still to be built
Permute ==
    /\ ~AllBuilt
    /\ \E f \in IndexPermutations(Len(entries)) :
          /\ entries' = [p \in 1..Len(entries) |-> entries[f[p]]]
          /\ entries' # entries
    /\ UNCHANGED <<index_bits, int_bits, tables, orderBook, vebLookupV1,
                   sortedLookup, eytzingerLookup, vebLookup, res, readers>>

\* the entries start in ascending key order, all keys distinct; Permute
\* brings them into every other order
InitPerm ==
    /\ InitTwin
    /\ \A p \in 1..(Len(entries) - 1) : entries[p][1] < entries[p + 1][1]

NextPerm == Next \/ Permute

SpecPerm == InitPerm /\ [][NextPerm]_vars

----------------------------------------------------------------------------
(* Concurrent readers: each find call runs one loop iteration at a time *)

\* the state of a call on entering find, up to the first loop test
FindEntry(layout, o, target) ==
    LET call == [Idle EXCEPT !.layout = layout, !.obj = o, !.target = target]
    IN IF layout = "sorted"
       THEN [call EXCEPT !.pc = "loop",
                         !.l = [NoLocals EXCEPT !.first = 0,
                                   !.len = Len(sortedLookup[o].keys)]]
       ELSE IF TableOf(layout, o).n = 0
       THEN [call EXCEPT !.pc = "done", !.ret = Nullptr]
       ELSE IF layout = "eytzinger"
       THEN [call EXCEPT !.pc = "loop", !.l = [NoLocals EXCEPT !.i = 1]]
       ELSE [call EXCEPT !.pc = "loop",
                         !.l = [NoLocals EXCEPT !.curr = vebLookup[o].root_idx,
                                                !.candidate = 0]]

\* a loop condition that lets the Eytzinger descent run one index further
LoopCond_PastEnd(c) ==
    IF c.layout = "sorted" THEN c.l.len > 0
    ELSE IF c.layout = "eytzinger" THEN c.l.i <= eytzingerLookup[c.obj].n + 1
    ELSE c.l.curr # 0

\* the loop condition of the call c
LoopCond(c) ==
    IF c.layout = "sorted" THEN c.l.len > 0
    ELSE IF c.layout = "eytzinger" THEN c.l.i <= eytzingerLookup[c.obj].n
    ELSE c.l.curr # 0

\* the locals of the call c after one more iteration of its loop
LoopBody(c) ==
    IF c.layout = "sorted"
    THEN LET n == LowerBoundStep(sortedLookup[c.obj].keys, c.l, c.target)
         IN [c.l EXCEPT !.first = n.first, !.len = n.len, !.steps = @ + 1]
    ELSE IF c.layout = "eytzinger"
    THEN [c.l EXCEPT !.i = EytzingerStep(eytzingerLookup[c.obj].keys, @, c.target),
                     !.steps = @ + 1]
    ELSE LET n == VebStep(vebLookup[c.obj].tree, c.l, c.target)
         IN [c.l EXCEPT !.curr = n.curr, !.candidate = n.candidate,
                        !.steps = @ + 1]

\* what the call c returns once its loop has exited
LoopExit(c) ==
    IF c.layout = "sorted"
    THEN SortedFinish(sortedLookup[c.obj], c.l.first, c.target)
    ELSE IF c.layout = "eytzinger"
    THEN EytzingerFinish(eytzingerLookup[c.obj], c.l.i, c.target, int_bits)
    ELSE VebFinish(vebLookup[c.obj], c.l, c.target)

\* the members of the tables after the call c ran a step
ConstTables(c) ==
    /\ sortedLookup' =
         IF c.layout = "sorted"
         THEN [sortedLookup EXCEPT ![c.obj] = SortedFindEffect(@)]
         ELSE sortedLookup
    /\ eytzingerLookup' =
         IF c.layout = "eytzinger"
         THEN [eytzingerLookup EXCEPT ![c.obj] = EytzingerFindEffect(@)]
         ELSE eytzingerLookup
    /\ vebLookup' =
         IF c.layout = "veb"
         THEN [vebLookup EXCEPT ![c.obj] = VebFindEffect(@, c.l)]
         ELSE vebLookup

\* readers call find on a table only after its build has returned
FindBegin(r, layout, o, target) ==
    /\ readers[r].pc = "idle"
    /\ <<layout, o>> \in tables
    /\ TableOf(layout, o).builds >= 1
    /\ readers' = [readers EXCEPT ![r] = FindEntry(layout, o, target)]
    /\ UNCHANGED <<entries, index_bits, int_bits, tables, orderBook, vebLookupV1,
                   sortedLookup, eytzingerLookup, vebLookup, res>>

FindIterate(r) ==
    /\ readers[r].pc = "loop"
    /\ LoopCond(readers[r])
    /\ readers' = [readers EXCEPT ![r].l = LoopBody(readers[r])]
    /\ ConstTables([readers[r] EXCEPT !.l = LoopBody(readers[r])])
    /\ UNCHANGED <<entries, index_bits, int_bits, tables, orderBook, vebLookupV1,
                   res>>

FindFinish(r) ==
    /\ readers[r].pc = "loop"
    /\ ~LoopCond(readers[r])
    /\ readers' = [readers EXCEPT ![r].pc = "done",
                                  ![r].ret = LoopExit(readers[r])]
    /\ ConstTables(readers[r])
    /\ UNCHANGED <<entries, index_bits, int_bits, tables, orderBook, vebLookupV1,
                   res>>

\* the caller takes the result; the locals go out of scope
FindReturn(r) ==
    /\ readers[r].pc = "done"
    /\ readers' = [readers EXCEPT ![r] = Idle]
    /\ UNCHANGED <<entries, index_bits, int_bits, tables, orderBook, vebLookupV1,
                   sortedLookup, eytzingerLookup, vebLookup, res>>

\* one table, built once and then read by the readers
InitReaders ==
    /\ entries \in {MakeEntries(ks) :
                      ks \in FreeKeySeqs \cup {SeriesDown(ReaderSeries)}}
    /\ index_bits = IndexBitsScaled
    /\ int_bits = IntBits
    /\ \E l \in Layouts : tables = {<<l, "a">>}
    /\ FreshTables

NextReaders ==
    \/ \E o \in Obj : SortedBuild(o) \/ EytzingerBuild(o) \/ VebBuild(o)
    \/ \E r \in Readers :
          \/ \E layout \in Layouts, o \in Obj, target \in QueryKeys(entries) :
                FindBegin(r, layout, o, target)
          \/ FindIterate(r)
          \/ FindFinish(r)
          \/ FindReturn(r)

SpecReaders == InitReaders /\ [][NextReaders]_vars

----------------------------------------------------------------------------
(* Capacity: the index type scaled to CapBits bits, inputs around 2^CapBits *)

InitCap ==
    /\ entries \in {MakeEntries(SeriesDown(n)) : n \in 0..(2 ^ CapBits + 1)}
    /\ index_bits = CapBits
    /\ int_bits = IntBits
    /\ tables = {<<l, "a">> : l \in Layouts}
    /\ FreshTables

SpecCap == InitCap /\ [][Next]_vars

----------------------------------------------------------------------------
(* Int width: int scaled to IntBitsScaled bits, inputs whose descent indices *)
(* need more bits than that                                                *)

InitInt ==
    /\ entries \in {MakeEntries(ks) :
                      ks \in FreeKeySeqs
                            \cup {SeriesDown(n) :
                                    n \in 1..(3 * 2 ^ (IntBitsScaled - 1))}}
    /\ index_bits = IndexBitsScaled
    /\ int_bits = IntBitsScaled
    /\ tables = {<<l, "a">> : l \in Layouts}
    /\ FreshTables

SpecInt == InitInt /\ [][Next]_vars

----------------------------------------------------------------------------
(* The order book under add, cancel and modify calls *)

OrderIds == 1..MaxOrderId

Prices == 0..(PriceLevels - 1)

Quantities == 1..MaxQuantity

LookupState == <<entries, index_bits, int_bits, tables,
                 sortedLookup, eytzingerLookup, vebLookup, res, readers,
                 vebLookupV1>>

add_order(order_id, price, quantity) ==
    /\ orderBook.status = "ok"
    /\ PriceInRange(orderBook, price)
    /\ \E failed \in {"aborted", "undefined"} :
          orderBook' = AddOrderOp(orderBook, order_id, price, quantity, failed)
    /\ UNCHANGED LookupState

cancel_order(order_id) ==
    /\ orderBook.status = "ok"
    /\ orderBook' = CancelOrderOp(orderBook, order_id)
    /\ UNCHANGED LookupState

modify_order(order_id, new_price, new_quantity) ==
    /\ orderBook.status = "ok"
    /\ PriceInRange(orderBook, new_price)
    /\ orderBook' = ModifyOrderOp(orderBook, order_id, new_price, new_quantity)
    /\ UNCHANGED LookupState

\* a book for the ticks 0 .. PriceLevels - 1, and no lookup table
InitBook ==
    /\ entries = <<>>
    /\ index_bits = IndexBitsScaled
    /\ int_bits = IntBits
    /\ tables = {}
    /\ FreshTables

NextBook ==
    \E order_id \in OrderIds :
        \/ cancel_order(order_id)
        \/ \E price \in Prices, quantity \in Quantities :
              \/ add_order(order_id, price, quantity)
              \/ modify_order(order_id, price, quantity)

SpecBook == InitBook /\ [][NextBook]_vars

----------------------------------------------------------------------------
(* Churn: the order book under add and cancel calls only *)

NextChurn ==
    \E order_id \in OrderIds :
        \/ cancel_order(order_id)
        \/ \E price \in Prices, quantity \in Quantities :
              add_order(order_id, price, quantity)

SpecChurn == InitBook /\ [][NextChurn]_vars

----------------------------------------------------------------------------
(* The two versions of VebLookup side by side: one table of each, built    *)
(* from one input, int scaled to EvoIntBits bits                           *)

VebBuildV1 ==
    /\ vebLookupV1.builds = 0
    /\ vebLookupV1.status = "ok"
    /\ ~IntOverflows(Len(entries), int_bits)
    /\ \E outcome \in OverflowOutcomes :
         vebLookupV1' = VebBuildOutcomeV1(vebLookupV1, entries, int_bits,
                                          index_bits, outcome)
    /\ res' = BuildCall("veb_v1", "a", FALSE)
    /\ UNCHANGED <<entries, index_bits, int_bits, tables, orderBook,
                   sortedLookup, eytzingerLookup, vebLookup, readers>>

VebFindV1(target) ==
    /\ vebLookupV1.status = "ok"
    /\ res' = FindCall("veb_v1", "a", target, VebFindOpV1(vebLookupV1, target))
    /\ UNCHANGED <<entries, index_bits, int_bits, tables, orderBook,
                   sortedLookup, eytzingerLookup, vebLookup, vebLookupV1,
                   readers>>

\* inputs up to the length at which 2 * bfs + 1 leaves the range of int
InitEvo ==
    /\ entries \in {MakeEntries(ks) :
                      ks \in FreeKeySeqs
                            \cup {SeriesDown(n) :
                                    n \in 1..(2 ^ (EvoIntBits - 2) + 1)}
                            \cup {SeriesTwice(n) :
                                    n \in 1..(2 ^ (EvoIntBits - 2) + 1)}}
    /\ index_bits = IndexBitsScaled
    /\ int_bits = EvoIntBits
    /\ tables = {<<"veb", "a">>}
    /\ FreshTables

NextEvo ==
    \/ VebBuild("a")
    \/ VebBuildV1
    \/ \E target \in QueryKeys(entries) :
          \/ VebFind("a", target)
          \/ VebFindV1(target)

SpecEvo == InitEvo /\ [][NextEvo]_vars

----------------------------------------------------------------------------
(* Building again: a second build call on a table that is already built,   *)
(* from another input                                                      *)

RebuildKeySeqs ==
    UNION {[1..n -> Keys] : n \in 0..RebuildLen}
        \cup {SeriesDown(n) : n \in 2..RebuildSeries}
        \cup {SeriesTwice(n) : n \in 2..RebuildSeries}
        \cup {SeriesTwice(SortThreshold + 1)}

\* the caller prepares another input for a table it has built once
NewInput ==
    /\ \E x \in tables : TableOf(x[1], x[2]).builds = 1
    /\ entries' \in {MakeEntries(ks) : ks \in RebuildKeySeqs}
    /\ entries' # entries
    /\ UNCHANGED <<index_bits, int_bits, tables, orderBook, vebLookupV1,
                   sortedLookup, eytzingerLookup, vebLookup, res, readers>>

\* the second build call on table o; the code is that of the first
SortedRebuild(o) ==
    /\ <<"sorted", o>> \in tables
    /\ sortedLookup[o].builds = 1
    /\ Quiet("sorted", o)
    /\ sortedLookup' = [sortedLookup EXCEPT ![o] = SortedBuildOp(@, entries)]
    /\ res' = BuildCall("sorted", o, FALSE)
    /\ UNCHANGED <<entries, index_bits, int_bits, tables, orderBook, vebLookupV1,
                   eytzingerLookup, vebLookup, readers>>

EytzingerRebuild(o) ==
    /\ <<"eytzinger", o>> \in tables
    /\ eytzingerLookup[o].builds = 1
    /\ Quiet("eytzinger", o)
    /\ eytzingerLookup' =
            [eytzingerLookup EXCEPT ![o] = EytzingerBuildOp(@, entries)]
    /\ res' = BuildCall("eytzinger", o, FALSE)
    /\ UNCHANGED <<entries, index_bits, int_bits, tables, orderBook, vebLookupV1,
                   sortedLookup, vebLookup, readers>>

VebRebuild(o) ==
    /\ <<"veb", o>> \in tables
    /\ vebLookup[o].builds = 1
    /\ Quiet("veb", o)
    /\ vebLookup' =
            [vebLookup EXCEPT ![o] = VebBuildOp(@, entries, index_bits)]
    /\ res' = BuildCall("veb", o, VebBuildThrows(vebLookup[o], entries, index_bits))
    /\ UNCHANGED <<entries, index_bits, int_bits, tables, orderBook, vebLookupV1,
                   sortedLookup, eytzingerLookup, readers>>

\* one table, of any layout
InitRebuild ==
    /\ entries \in {MakeEntries(ks) : ks \in RebuildKeySeqs}
    /\ index_bits = IndexBitsScaled
    /\ int_bits = IntBits
    /\ \E l \in Layouts : tables = {<<l, "a">>}
    /\ FreshTables

NextRebuild ==
    \/ Next
    \/ NewInput
    \/ \E o \in Obj :
          \/ SortedRebuild(o)
          \/ EytzingerRebuild(o)
          \/ VebRebuild(o)

SpecRebuild == InitRebuild /\ [][NextRebuild]_vars

----------------------------------------------------------------------------
(* Reading the tables *)

BuiltOnce(l, o) == <<l, o>> \in tables /\ TableOf(l, o).builds = 1

FindIn(l, o, target) ==
    IF l = "sorted" THEN SortedFindOp(sortedLookup[o], target)
    ELSE IF l = "eytzinger"
    THEN EytzingerFindOp(eytzingerLookup[o], target, int_bits)
    ELSE VebFindOp(vebLookup[o], target)

SizeOf(l, o) ==
    IF l = "sorted" THEN SortedSize(sortedLookup[o])
    ELSE IF l = "eytzinger" THEN EytzingerSize(eytzingerLookup[o])
    ELSE VebSize(vebLookup[o])

InputValues(es, k) == {es[p][2] : p \in Occurrences(es, k)}

\* the last call was a find on a table that build has been called on once
FoundOnBuilt == res.op = "find" /\ BuiltOnce(res.layout, res.obj)

OtherObj(o) == IF o = "a" THEN "b" ELSE "a"

----------------------------------------------------------------------------
(* Claims *)

\* C1: round trip.  After build, find(k) of a key k of the input returns a
\* value that the input pairs with k (the value given for k when k occurs
\* once), in all three layouts.
C1_RoundTrip ==
    (FoundOnBuilt /\ res.target \in InputKeys(entries))
        => /\ res.ret.found
           /\ res.ret.val \in InputValues(entries, res.target)

C1_Witness ==
    /\ FoundOnBuilt
    /\ res.layout = "eytzinger"
    /\ Len(entries) >= 3
    /\ Cardinality(Occurrences(entries, res.target)) >= 2
    /\ res.ret.found

\* C2: miss.  After build, find(q) of a key q that is no key of the input
\* returns nullptr, in all three layouts, the empty input included.
C2_Miss ==
    (FoundOnBuilt /\ res.target \notin InputKeys(entries)) => ~res.ret.found

C2_Witness ==
    /\ FoundOnBuilt
    /\ res.layout = "veb"
    /\ ~res.ret.found
    /\ \E lo, hi \in InputKeys(entries) : lo < res.target /\ res.target < hi

\* C3: cross-layout equivalence.  With the three tables built from one input,
\* a find returns a value in one layout exactly when it does in the other
\* two, and the same value when the input keys are distinct.
C3_CrossLayout ==
    (FoundOnBuilt /\ \A l \in Layouts : BuiltOnce(l, "a"))
        => \A l \in Layouts :
              /\ FindIn(l, "a", res.target).found = res.ret.found
              /\ DistinctKeys(entries)
                    => FindIn(l, "a", res.target).val = res.ret.val

C3_Witness ==
    /\ FoundOnBuilt
    /\ \A l \in Layouts : BuiltOnce(l, "a")
    /\ res.layout = "veb"
    /\ res.ret.found
    /\ DistinctKeys(entries)
    /\ Len(entries) >= 5

\* C4: build sorts internally.  Two tables of one layout built from two
\* orders of the same entries, with distinct keys, return the same for
\* every find.
C4_PermutationInvariant ==
    (FoundOnBuilt /\ BuiltOnce(res.layout, OtherObj(res.obj))
       /\ DistinctKeys(entries))
        => LET other == FindIn(res.layout, OtherObj(res.obj), res.target)
           IN other.found = res.ret.found /\ other.val = res.ret.val

C4_Witness ==
    /\ FoundOnBuilt
    /\ BuiltOnce(res.layout, OtherObj(res.obj))
    /\ TableOf(res.layout, "a").built_from # TableOf(res.layout, "b").built_from
    /\ Len(entries) >= 3
    /\ res.ret.found

\* the smallest index i with keys[i] >= target, the size when there is none
LowerBoundIndex(keys, target) ==
    MinOf({i \in 0..Len(keys) : i = Len(keys) \/ At(keys, i) >= target})

\* C6: SortedLookup::find returns &vals[i] exactly when the lower-bound index
\* i is in range and keys[i] = target, and nullptr otherwise.
C6_SortedFindIsLowerBound ==
    (FoundOnBuilt /\ res.layout = "sorted")
        => LET t == sortedLookup[res.obj]
               i == LowerBoundIndex(t.keys, res.target)
           IN res.ret = IF i < Len(t.keys) /\ At(t.keys, i) = res.target
                        THEN Ptr(t.vals, i) ELSE Nullptr

C6_Witness ==
    /\ FoundOnBuilt
    /\ res.layout = "sorted"
    /\ res.ret.found
    /\ res.ret.idx >= 2

\* C7: for a key that occurs several times, SortedLookup::find returns the
\* value at the lowest index of the sorted array that holds the key.
C7_SortedFirstOccurrence ==
    (FoundOnBuilt /\ res.layout = "sorted"
       /\ Cardinality(Occurrences(entries, res.target)) >= 2)
        => LET t == sortedLookup[res.obj]
               first == MinOf({i \in 0..(Len(t.keys) - 1) :
                                  At(t.keys, i) = res.target})
           IN res.ret = Ptr(t.vals, first)

C7_Witness ==
    /\ FoundOnBuilt
    /\ res.layout = "sorted"
    /\ Cardinality(Occurrences(entries, res.target)) >= 2
    /\ res.ret.found
    /\ res.ret.idx >= 1

\* C8 as stated: after build the number of stored entries is the number of
\* distinct keys of the input.
C8_SizeIsDistinctCount ==
    \A l \in Layouts :
        BuiltOnce(l, "a") => SizeOf(l, "a") = Cardinality(InputKeys(entries))

\* C8 amended: build keeps duplicates; after build the number of stored
\* entries is the number of entries of the input.
C8_SizeIsEntryCount ==
    \A l \in Layouts : BuiltOnce(l, "a") => SizeOf(l, "a") = Len(entries)

C8_Witness ==
    /\ \A l \in Layouts : BuiltOnce(l, "a")
    /\ \A l \in Layouts : SizeOf(l, "a") > Cardinality(InputKeys(entries))

\* C9: find is read-only.  Every step of a find call leaves all members of
\* all tables unchanged, and a call that interleaves with other readers'
\* calls returns what the call returns when made alone on the table as built.
C9_FindReadOnly ==
    [][\A r \in Readers :
          readers'[r] # readers[r]
             => /\ UNCHANGED <<sortedLookup, eytzingerLookup, vebLookup>>
                /\ readers'[r].pc = "done"
                      => readers'[r].ret = FindIn(readers'[r].layout,
                                                  readers'[r].obj,
                                                  readers'[r].target)]_vars

C9_Witness ==
    /\ readers["r1"].pc = "done"
    /\ readers["r1"].layout = "veb"
    /\ readers["r1"].ret.found
    /\ readers["r2"].pc = "loop"
    /\ readers["r2"].layout = "veb"
    /\ readers["r2"].l.curr \notin {0, vebLookup["a"].root_idx}
    /\ readers["r2"].target # readers["r1"].target

\* C10: VebLookup::build throws exactly when N + 1 > 2^w, w the width of the
\* index type: every input with N + 1 <= 2^w builds, every larger one fails.
C10_ThrowsIffOverflow ==
    (res.op = "build" /\ res.layout = "veb")
        => (res.threw <=> Len(entries) + 1 > 2 ^ index_bits)

\* C11: when VebLookup::build throws on a fresh object, the object is as a
\* never-built one: n = 0, tree and vals empty, root_idx = 0.
C11_FailedBuildLeavesFresh ==
    (res.op = "build" /\ res.layout = "veb" /\ res.threw)
        => LET t == vebLookup[res.obj]
           IN /\ t.n = VebFresh.n
              /\ t.tree = VebFresh.tree
              /\ t.vals = VebFresh.vals
              /\ t.root_idx = VebFresh.root_idx

\* C12: EytzingerLookup has no size limit: find returns a value paired with
\* the target when the target is a key of the input and nullptr when it is
\* not, also when the descent index needs more bits than int has.
C12_EytzingerAnySize ==
    (FoundOnBuilt /\ res.layout = "eytzinger")
        => IF res.target \in InputKeys(entries)
           THEN /\ res.ret.found
                /\ res.ret.val \in InputValues(entries, res.target)
           ELSE ~res.ret.found

\* the most iterations the claim allows a descent over n entries:
\* ceil(log2(n + 1)), which is the number of significant bits of n
HeightOf(n) == BitLength(n)

\* C13: find terminates.  A find call on an Eytzinger or vEB table of N
\* entries has run at most ceil(log2(N + 1)) loop iterations, its loop
\* condition is false once it has run that many, and a call on an empty
\* table returns without entering the loop.
C13_FindTerminates ==
    \A r \in Readers :
        readers[r].layout \in {"eytzinger", "veb"}
            => LET c == readers[r]
                   n == TableOf(c.layout, c.obj).n
               IN /\ c.l.steps <= HeightOf(n)
                  /\ (c.pc = "loop" /\ c.l.steps = HeightOf(n)) => ~LoopCond(c)
                  /\ n = 0 => (c.pc = "done" /\ c.l.steps = 0)

C13_Witness ==
    /\ readers["r1"].pc = "done"
    /\ readers["r1"].layout = "veb"
    /\ vebLookup["a"].n >= 4
    /\ readers["r1"].l.steps = HeightOf(vebLookup["a"].n)
    /\ readers["r2"].pc = "done"
    /\ readers["r2"].l.steps < readers["r1"].l.steps

\* the ids the order map resolves among those added and not cancelled since
LiveOrders(b) == {id \in b.live : MapFind(b.slots, id).found}

\* C14: after any sequence of add_order, cancel_order and modify_order calls
\* that returned, num_orders() is the number of live orders.
C14_NumOrdersIsLiveCount ==
    orderBook.status = "ok"
        => num_orders(orderBook) = Cardinality(LiveOrders(orderBook))

\* the entries of an Eytzinger table read by in-order traversal: left child
\* 2i, node i, right child 2i + 1, positions above n left out
EytzingerInOrder(t) ==
    LET order == inorder_complete(1, t.n)
    IN [p \in 1..t.n |-> <<At(t.keys, order[p]), At(t.vals, order[p])>>]

\* C15: Eytzinger build.  For N >= 1 the fill writes each position 1..N once,
\* reads sorted[0], ..., sorted[N - 1] in this order and nothing else, and
\* afterwards the in-order traversal of the table is the sorted input, each
\* key with its value.
C15_EytzingerFill ==
    (BuiltOnce("eytzinger", "a") /\ Len(entries) >= 1)
        => LET t == eytzingerLookup["a"]
           IN /\ t.n = Len(entries)
              /\ Len(t.fill_writes) = t.n
              /\ {t.fill_writes[p] : p \in 1..t.n} = 1..t.n
              /\ t.fill_reads = [p \in 1..t.n |-> p - 1]
              /\ EytzingerInOrder(t) = SortEntries(entries)

C15_Witness ==
    /\ BuiltOnce("eytzinger", "a")
    /\ Len(entries) = 6
    /\ ~DistinctKeys(entries)
    /\ eytzingerLookup["a"].fill_writes[1] = 4

\* the last node at which the descent from node i towards target goes left
\* (keys[node] >= target), cand when it goes left nowhere
RECURSIVE LastLeftTurn(_, _, _, _, _)
LastLeftTurn(keys, n, i, cand, target) ==
    IF i > n THEN cand
    ELSE IF At(keys, i) < target
    THEN LastLeftTurn(keys, n, 2 * i + 1, cand, target)
    ELSE LastLeftTurn(keys, n, 2 * i, i, target)

\* the index after the recovery shift of find(target) on table t
EytzingerRecovered(t, target) ==
    EytzingerRecover(EytzingerDescend(t.keys, t.n, 1, target), int_bits)

\* C16: Eytzinger descent and recovery compute lower_bound.  For N >= 1 the
\* index after the shift is the last node of the descent path at which the
\* descent went left, that node holds the first element of the sorted order
\* with key >= target, and the index is 0 exactly when every key is < target.
C16_EytzingerLowerBound ==
    (FoundOnBuilt /\ res.layout = "eytzinger" /\ Len(entries) >= 1)
        => LET t == eytzingerLookup[res.obj]
               i == EytzingerRecovered(t, res.target)
               sortedKeys == [p \in 1..t.n |-> EytzingerInOrder(t)[p][1]]
               lb == LowerBoundIndex(sortedKeys, res.target)
           IN /\ i = LastLeftTurn(t.keys, t.n, 1, 0, res.target)
              /\ i = 0 <=> \A k \in InputKeys(entries) : k < res.target
              /\ i # 0 => /\ lb < t.n
                          /\ i = At(inorder_complete(1, t.n), lb)
              /\ sortedKeys = [p \in 1..t.n |-> SortEntries(entries)[p][1]]

C16_Witness ==
    /\ FoundOnBuilt
    /\ res.layout = "eytzinger"
    /\ Len(entries) >= 9
    /\ ~res.ret.found
    /\ EytzingerRecovered(eytzingerLookup[res.obj], res.target) = 2
    /\ EytzingerDescend(eytzingerLookup[res.obj].keys,
                        eytzingerLookup[res.obj].n, 1, res.target) % 4 = 3

\* a find call on an Eytzinger table of one element that has left its loop
SingleElementDone(r) ==
    /\ readers[r].pc = "done"
    /\ readers[r].layout = "eytzinger"
    /\ eytzingerLookup[readers[r].obj].n = 1

\* C17 as stated: for N = 1 and every target the loop runs once and the
\* recovery yields i = 1.
C17_SingleRecoversOne ==
    \A r \in Readers :
        SingleElementDone(r)
            => /\ readers[r].l.steps = 1
               /\ EytzingerRecover(readers[r].l.i, int_bits) = 1

\* C17 amended: for N = 1 the loop runs once; the recovery yields i = 1 when
\* target <= keys[1], and the result is then decided by comparing keys[1]
\* with target; it yields i = 0 when target > keys[1], and find returns
\* nullptr without a comparison.
C17_SingleRecovers ==
    \A r \in Readers :
        SingleElementDone(r)
            => LET c == readers[r]
                   t == eytzingerLookup[c.obj]
                   i == EytzingerRecover(c.l.i, int_bits)
               IN /\ c.l.steps = 1
                  /\ i = IF c.target <= At(t.keys, 1) THEN 1 ELSE 0
                  /\ c.ret = IF i = 1 /\ At(t.keys, 1) = c.target
                             THEN Ptr(t.vals, 1) ELSE Nullptr

C17_Witness ==
    /\ SingleElementDone("r1")
    /\ readers["r1"].target > At(eytzingerLookup["a"].keys, 1)
    /\ readers["r1"].l.i = 3
    /\ SingleElementDone("r2")
    /\ readers["r2"].ret.found

\* C18: the all-ones exit value is unreachable.  For 1 <= N <= 2^w - 2, w the
\* width of int, the index with which the descent loop exits is never all
\* ones in its low w bits, so ffs never returns 0.
C18_FfsNeverZero ==
    (FoundOnBuilt /\ res.layout = "eytzinger"
       /\ Len(entries) >= 1 /\ BitLength(Len(entries) + 1) <= int_bits)
        => LET t == eytzingerLookup[res.obj]
           IN FfsOfComplement(EytzingerDescend(t.keys, t.n, 1, res.target),
                              int_bits) # 0

\* the ancestor of BFS index x on level d of the tree, the root on level 0
AncestorOnLevel(x, d) == x \div (2 ^ (BitLength(x) - 1 - d))

\* C19: the vEB order is a permutation.  For N >= 1 and h = 64 - clz(N), h is
\* ceil(log2(N + 1)); build_veb_complete(1, h, N) emits every BFS index 1..N
\* once and no other, the top block of height ceil(h / 2) first and then the
\* bottom blocks in order; bfs_to_veb is a bijection from the BFS indices
\* 1..N onto the slots 1..N, and the build writes every slot 1..N once.
C19_VebOrderIsPermutation ==
    (BuiltOnce("veb", "a") /\ Len(entries) >= 1)
        => LET t == vebLookup["a"]
               n == t.n
               h == BitLength(n)
               top_h == h - h \div 2
               veb_order == build_veb_complete(1, h, n)
               bfs_to_veb == InvertOrder(veb_order, n, 1)
               top == IF n < 2 ^ top_h - 1 THEN n ELSE 2 ^ top_h - 1
           IN /\ 2 ^ (h - 1) < n + 1 /\ n + 1 <= 2 ^ h
              /\ Len(veb_order) = n
              /\ {veb_order[p] : p \in 1..n} = 1..n
              /\ {veb_order[p] : p \in 1..top} = 1..top
              /\ \A p, q \in (top + 1)..n :
                    p < q => AncestorOnLevel(veb_order[p], top_h)
                                <= AncestorOnLevel(veb_order[q], top_h)
              /\ {At(bfs_to_veb, b) : b \in 1..n} = 1..n
              /\ Len(t.placed) = n
              /\ {t.placed[p] : p \in 1..n} = 1..n
              /\ t.root_idx = At(bfs_to_veb, 1)
              /\ Len(t.tree) = n + 1 /\ Len(t.vals) = n + 1

C19_Witness ==
    /\ BuiltOnce("veb", "a")
    /\ Len(entries) = 10
    /\ vebLookup["a"].placed # [p \in 1..10 |-> p]
    /\ build_veb_complete(1, 4, 10) = <<1, 2, 3, 4, 8, 9, 5, 10, 6, 7>>

\* the keys stored in the subtree whose root is slot c, none for c = 0
RECURSIVE VebSubtreeKeys(_, _)
VebSubtreeKeys(tree, c) ==
    IF c = 0 THEN {}
    ELSE {At(tree, c).key}
         \cup VebSubtreeKeys(tree, At(At(tree, c).children, 0))
         \cup VebSubtreeKeys(tree, At(At(tree, c).children, 1))

\* C20 as stated: after build from any input, duplicate keys allowed, every
\* key under children[0] of a node v is <= v.key and every key under
\* children[1] of v is strictly > v.key.
C20_VebStrictBst ==
    BuiltOnce("veb", "a")
        => LET t == vebLookup["a"]
           IN \A v \in 1..t.n :
                 /\ \A k \in VebSubtreeKeys(t.tree, At(At(t.tree, v).children, 0)) :
                       k <= At(t.tree, v).key
                 /\ \A k \in VebSubtreeKeys(t.tree, At(At(t.tree, v).children, 1)) :
                       k > At(t.tree, v).key

\* C20 amended: every key under children[0] of v is <= v.key and every key
\* under children[1] of v is >= v.key; it is strictly > v.key when the keys
\* of the input are distinct.
C20_VebBst ==
    BuiltOnce("veb", "a")
        => LET t == vebLookup["a"]
           IN \A v \in 1..t.n :
                 /\ \A k \in VebSubtreeKeys(t.tree, At(At(t.tree, v).children, 0)) :
                       k <= At(t.tree, v).key
                 /\ \A k \in VebSubtreeKeys(t.tree, At(At(t.tree, v).children, 1)) :
                       /\ k >= At(t.tree, v).key
                       /\ DistinctKeys(entries) => k > At(t.tree, v).key

C20_Witness ==
    /\ BuiltOnce("veb", "a")
    /\ Len(entries) >= 7
    /\ \E v \in 1..vebLookup["a"].n :
          /\ At(vebLookup["a"].tree, v).children[2] # 0
          /\ At(vebLookup["a"].tree, v).key
                \in VebSubtreeKeys(vebLookup["a"].tree,
                                   At(vebLookup["a"].tree, v).children[2])

\* the slots reached from the slots in S by following child links, k links
\* at most
RECURSIVE VebReach(_, _, _)
VebReach(tree, S, k) ==
    IF k = 0 THEN S
    ELSE VebReach(tree,
                  S \cup ({At(At(tree, v).children, d) : v \in S, d \in {0, 1}}
                          \ {0}),
                  k - 1)

\* the links that point to slot c: pairs of a slot and one of its two sides
VebParents(t, c) ==
    {x \in (1..t.n) \X {0, 1} : At(At(t.tree, x[1]).children, x[2]) = c}

\* C21: vEB reachability.  After build with N >= 1 every slot 1..N is reached
\* from root_idx along child links, every slot other than root_idx is the
\* child of exactly one node and root_idx of none, and the child link of the
\* node of BFS index bfs is 0 exactly where 2 * bfs, or 2 * bfs + 1, exceeds
\* N, and the slot of that BFS child otherwise.
C21_VebReachable ==
    (BuiltOnce("veb", "a") /\ Len(entries) >= 1)
        => LET t == vebLookup["a"]
               n == t.n
               bfs_to_veb == InvertOrder(build_veb_complete(1, BitLength(n), n),
                                         n, 1)
           IN /\ t.root_idx \in 1..n
              /\ VebReach(t.tree, {t.root_idx}, n) = 1..n
              /\ VebParents(t, t.root_idx) = {}
              /\ \A c \in (1..n) \ {t.root_idx} :
                    Cardinality(VebParents(t, c)) = 1
              /\ \A bfs \in 1..n :
                    LET node == At(t.tree, At(bfs_to_veb, bfs))
                    IN /\ At(node.children, 0) =
                             IF 2 * bfs > n THEN 0 ELSE At(bfs_to_veb, 2 * bfs)
                       /\ At(node.children, 1) =
                             IF 2 * bfs + 1 > n THEN 0
                             ELSE At(bfs_to_veb, 2 * bfs + 1)
                       /\ At(node.children, 0) = 0 <=> 2 * bfs > n
                       /\ At(node.children, 1) = 0 <=> 2 * bfs + 1 > n

C21_Witness ==
    /\ BuiltOnce("veb", "a")
    /\ Len(entries) = 10
    /\ \E v \in 1..10 :
          /\ At(At(vebLookup["a"].tree, v).children, 0) # 0
          /\ At(At(vebLookup["a"].tree, v).children, 1) = 0
    /\ VebReach(vebLookup["a"].tree, {vebLookup["a"].root_idx}, 2) # 1..10

\* the BFS indices <= N of the block of height h whose root is bfs_idx
BlockNodes(bfs_idx, h, N) ==
    {x \in 1..N : \E d \in 0..(h - 1) :
                     BitLength(x) = BitLength(bfs_idx) + d
                     /\ AncestorOnLevel(x, BitLength(bfs_idx) - 1) = bfs_idx}

BlockSlots(bfs_to_veb, bfs_idx, h, N) ==
    {At(bfs_to_veb, x) : x \in BlockNodes(bfs_idx, h, N)}

\* the slots in S are the range from .. from + Cardinality(S) - 1
RangeFrom(S, from) == S = from..(from + Cardinality(S) - 1)

\* the block of height h under bfs_idx occupies the slots that begin at
\* from, its top block first and then its bottom blocks from left to right,
\* and so does every block inside it
RECURSIVE BlockContiguous(_, _, _, _, _)
RECURSIVE BottomsContiguous(_, _, _, _, _, _, _)
BlockContiguous(bfs_to_veb, bfs_idx, h, N, from) ==
    IF h = 0 \/ bfs_idx > N THEN TRUE
    ELSE /\ RangeFrom(BlockSlots(bfs_to_veb, bfs_idx, h, N), from)
         /\ h >= 2 =>
              LET bottom_h == h \div 2
                  top_h == h - bottom_h
              IN /\ BlockContiguous(bfs_to_veb, bfs_idx, top_h, N, from)
                 /\ BottomsContiguous(
                       bfs_to_veb, bfs_idx * (2 ^ top_h), 0, 2 ^ top_h,
                       bottom_h, N,
                       from + Cardinality(BlockNodes(bfs_idx, top_h, N)))

BottomsContiguous(bfs_to_veb, first_leaf_bfs, i, num_bottom, bottom_h, N, from) ==
    IF i >= num_bottom THEN TRUE
    ELSE /\ BlockContiguous(bfs_to_veb, first_leaf_bfs + i, bottom_h, N, from)
         /\ BottomsContiguous(
               bfs_to_veb, first_leaf_bfs, i + 1, num_bottom, bottom_h, N,
               from + Cardinality(BlockNodes(first_leaf_bfs + i, bottom_h, N)))

\* C22: vEB layout.  For N >= 1 the slots of every block of the recursive
\* decomposition, restricted to BFS indices <= N, are a contiguous range; the
\* range of a top block is followed at once by the ranges of its bottom
\* blocks from left to right.
C22_VebBlocksContiguous ==
    (BuiltOnce("veb", "a") /\ Len(entries) >= 1)
        => LET n == vebLookup["a"].n
               h == BitLength(n)
               bfs_to_veb == InvertOrder(build_veb_complete(1, h, n), n, 1)
           IN /\ BlockContiguous(bfs_to_veb, 1, h, n, 1)
              /\ \A bfs \in 1..n :
                    At(vebLookup["a"].tree, At(bfs_to_veb, bfs)).key
                       = At(SortEntries(entries),
                            At(InvertOrder(inorder_complete(1, n), n, 0), bfs))[1]

C22_Witness ==
    /\ BuiltOnce("veb", "a")
    /\ Len(entries) = 9
    /\ BlockNodes(2, 2, 9) = {2, 4, 5}
    /\ BlockSlots(InvertOrder(build_veb_complete(1, 4, 9), 9, 1), 4, 2, 9)
          = {4, 5, 6}

\* the slots on the descent path from slot c towards target, root first
RECURSIVE VebPath(_, _, _)
VebPath(tree, c, target) ==
    IF c = 0 THEN <<>>
    ELSE <<c>> \o VebPath(tree,
                          IF At(tree, c).key < target
                          THEN At(At(tree, c).children, 1)
                          ELSE At(At(tree, c).children, 0),
                          target)

\* the entries of a vEB table read by in-order traversal from slot c
RECURSIVE VebInOrderFrom(_, _)
VebInOrderFrom(t, c) ==
    IF c = 0 THEN <<>>
    ELSE VebInOrderFrom(t, At(At(t.tree, c).children, 0))
         \o << <<c, At(t.tree, c).key, At(t.vals, c)>> >>
         \o VebInOrderFrom(t, At(At(t.tree, c).children, 1))

\* candidate when the loop of find(target) on table t exits
VebCandidate(t, target) ==
    VebDescend(t.tree, [curr |-> t.root_idx, candidate |-> 0], target).candidate

\* C23: vEB descent computes lower_bound.  When the loop exits, candidate is
\* the deepest node of the descent path whose key is >= target, that node
\* holds the first element of the sorted order with key >= target, and
\* candidate is 0 exactly when every stored key is < target.
C23_VebLowerBound ==
    (FoundOnBuilt /\ res.layout = "veb" /\ Len(entries) >= 1)
        => LET t == vebLookup[res.obj]
               cand == VebCandidate(t, res.target)
               path == VebPath(t.tree, t.root_idx, res.target)
               atLeast == {p \in 1..Len(path) :
                              At(t.tree, path[p]).key >= res.target}
               order == VebInOrderFrom(t, t.root_idx)
               sortedKeys == [p \in 1..Len(order) |-> order[p][2]]
               lb == LowerBoundIndex(sortedKeys, res.target)
           IN /\ cand = IF atLeast = {} THEN 0 ELSE path[MaxOf(atLeast)]
              /\ cand = 0 <=> \A k \in InputKeys(entries) : k < res.target
              /\ sortedKeys = [p \in 1..t.n |->
                                 SortEntries(entries)[p][1]]
              /\ cand # 0 => /\ lb < t.n
                             /\ cand = At(order, lb)[1]

C23_Witness ==
    /\ FoundOnBuilt
    /\ res.layout = "veb"
    /\ Len(entries) >= 9
    /\ ~res.ret.found
    /\ LET t == vebLookup[res.obj]
           path == VebPath(t.tree, t.root_idx, res.target)
       IN /\ Len(path) = 4
          /\ VebCandidate(t, res.target) = path[2]

\* both versions have been built, from the same input
BothVersionsBuilt ==
    /\ vebLookupV1.builds = 1
    /\ vebLookup["a"].builds = 1
    /\ vebLookupV1.built_from = vebLookup["a"].built_from

\* the two tables hold the same keys and child links in the same slots
SameSlots(t1, t2) ==
    /\ t1.n = t2.n
    /\ t1.root_idx = t2.root_idx
    /\ Len(t1.tree) = Len(t2.tree)
    /\ \A c \in 1..t2.n :
          /\ At(t1.tree, c).key = At(t2.tree, c).key
          /\ At(t1.tree, c).left = At(At(t2.tree, c).children, 0)
          /\ At(t1.tree, c).right = At(At(t2.tree, c).children, 1)

\* find of the two tables returns the same slot for every target, and the
\* same value where the two sorts left equal keys in the same order
SameFinds(t1, t2) ==
    \A target \in QueryKeys(entries) :
        LET r1 == VebFindOpV1(t1, target)
            r2 == VebFindOp(t2, target)
        IN /\ r1.found = r2.found
           /\ r1.idx = r2.idx
           /\ t1.vals = t2.vals => r1 = r2

\* C24: the branchless find of the second version is equivalent to the
\* branching find of the first.  Built from the same input, the two versions
\* store the same keys and child links in the same slots, and their find
\* returns the same result for every target.
C24_VebVersionsAgree ==
    BothVersionsBuilt
        => /\ vebLookupV1.status = "ok"
           /\ SameSlots(vebLookupV1, vebLookup["a"])
           /\ SameFinds(vebLookupV1, vebLookup["a"])

\* C25: SortedLookup invariant.  After every build call on a SortedLookup
\* object, a second build on a built object included, keys has exactly the
\* entries of that build in ascending order and vals[i] is the value paired
\* with keys[i].
C25_SortedInvariant ==
    \A x \in tables :
        (x[1] = "sorted" /\ sortedLookup[x[2]].builds >= 1)
            => LET t == sortedLookup[x[2]]
               IN /\ Len(t.keys) = Len(t.built_from)
                  /\ Len(t.vals) = Len(t.keys)
                  /\ \A i \in 0..(Len(t.keys) - 2) :
                        At(t.keys, i) <= At(t.keys, i + 1)
                  /\ \A i \in 0..(Len(t.keys) - 1) :
                        <<At(t.keys, i), At(t.vals, i)>>
                            = At(SortEntries(t.built_from), i)

\* every key a find on a twice-built table can be asked for
RebuildQueryKeys ==
    LET ks == UNION {InputKeys(MakeEntries(s)) : s \in RebuildKeySeqs}
    IN (MinOf(ks) - 1)..(MaxOf(ks) + 1)

\* find on table t returns for every key what it returns on a fresh object
\* built from the input of t's last build alone
EytzingerAsFresh(t) ==
    LET f == EytzingerBuildOp(EytzingerFresh, t.built_from)
    IN \A target \in RebuildQueryKeys :
          EytzingerFindOp(t, target, int_bits)
              = EytzingerFindOp(f, target, int_bits)

VebAsFresh(t) ==
    LET f == VebBuildOp(VebFresh, t.built_from, index_bits)
    IN \A target \in RebuildQueryKeys :
          VebFindOp(t, target) = VebFindOp(f, target)

\* C26: re-build replaces the contents of EytzingerLookup and VebLookup.
\* After build(E1) followed by build(E2) on the same object, find returns for
\* every key exactly what it returns on a fresh object built from E2 alone;
\* no entry of E1 remains findable.
C26_RebuildReplaces ==
    \A x \in tables :
        /\ (x[1] = "eytzinger" /\ eytzingerLookup[x[2]].builds = 2)
              => EytzingerAsFresh(eytzingerLookup[x[2]])
        /\ (x[1] = "veb" /\ vebLookup[x[2]].builds = 2)
              => VebAsFresh(vebLookup[x[2]])

\* the second build was from the empty input, the arrays still hold the
\* first build's entries, and find of one of their keys returns nullptr
C26_Witness ==
    /\ res.op = "find"
    /\ res.layout = "eytzinger"
    /\ <<"eytzinger", res.obj>> \in tables
    /\ LET t == eytzingerLookup[res.obj]
       IN /\ t.builds = 2
          /\ t.built_from = <<>>
          /\ \E i \in 1..(Len(t.keys) - 1) : At(t.keys, i) = res.target
          /\ ~res.ret.found

\* the reads of an Eytzinger find call c on table t: keys[i] in the loop,
\* keys[i] and vals[i] after it
EytzingerReadsInside(c, t) ==
    /\ Len(t.keys) = t.n + 1
    /\ Len(t.vals) = t.n + 1
    /\ (c.pc = "loop" /\ LoopCond(c)) => (1 <= c.l.i /\ c.l.i <= t.n)
    /\ (c.pc = "done" /\ c.ret.found) => (1 <= c.ret.idx /\ c.ret.idx <= t.n)

\* the reads of a vEB find call c on table t: tree[curr], the prefetch
\* targets tree[children[0]] and tree[children[1]], tree[candidate] and
\* vals[candidate]
VebReadsInside(c, t) ==
    /\ Len(t.tree) = t.n + 1
    /\ Len(t.vals) = t.n + 1
    /\ t.root_idx \in 0..t.n
    /\ \A s \in 0..t.n : \A k \in 0..1 :
          At(At(t.tree, s).children, k) \in 0..t.n
    /\ At(t.tree, 0) = SearchData
    /\ c.pc = "loop" => (c.l.curr \in 0..t.n /\ c.l.candidate \in 0..t.n)
    /\ (c.pc = "done" /\ c.ret.found) => c.ret.idx \in 1..t.n

\* C27: find never reads outside the arrays.  In Eytzinger find every read
\* keys[i] and the returned vals[i] use 1 <= i <= N; in vEB find curr and
\* candidate are always in 0..N and every stored child index is in 0..N, so
\* tree[curr], both prefetch targets and the returned vals[candidate] lie
\* inside tree[0..N] and vals[0..N].
C27_FindInBounds ==
    \A r \in Readers :
        LET c == readers[r]
        IN /\ (c.layout = "eytzinger" /\ c.pc = "loop")
                 => EytzingerReadsInside(c, eytzingerLookup[c.obj])
           /\ (c.layout = "eytzinger" /\ c.pc = "done" /\ c.ret.found)
                 => EytzingerReadsInside(c, eytzingerLookup[c.obj])
           /\ (c.layout = "veb" /\ c.pc = "loop")
                 => VebReadsInside(c, vebLookup[c.obj])
           /\ (c.layout = "veb" /\ c.pc = "done" /\ c.ret.found)
                 => VebReadsInside(c, vebLookup[c.obj])

\* one reader's Eytzinger loop is about to read the last slot keys[N] while
\* the other's call has returned a pointer to vals[N]
C27_Witness ==
    /\ readers["r1"].layout = "eytzinger"
    /\ readers["r1"].pc = "loop"
    /\ readers["r1"].l.i = eytzingerLookup[readers["r1"].obj].n
    /\ readers["r1"].l.i >= 4
    /\ readers["r2"].layout = "eytzinger"
    /\ readers["r2"].pc = "done"
    /\ readers["r2"].ret.found
    /\ readers["r2"].ret.idx = eytzingerLookup[readers["r2"].obj].n

\* the entries of table "a" of the layout in its sorted order: the arrays of
\* SortedLookup, the in-order traversal of the two trees
VebInOrder(t) ==
    LET order == VebInOrderFrom(t, IF t.n = 0 THEN 0 ELSE t.root_idx)
    IN [p \in 1..Len(order) |-> <<order[p][2], order[p][3]>>]

SortedOrderOf(l) ==
    IF l = "sorted"
    THEN [p \in 1..Len(sortedLookup["a"].keys) |->
             <<sortedLookup["a"].keys[p], sortedLookup["a"].vals[p]>>]
    ELSE IF l = "eytzinger" THEN EytzingerInOrder(eytzingerLookup["a"])
    ELSE VebInOrder(vebLookup["a"])

\* the value of the first occurrence of key k in a sorted order
FirstValue(order, k) ==
    order[MinOf({p \in 1..Len(order) : order[p][1] = k})][2]

RepeatedKeys(es) ==
    {k \in InputKeys(es) : Cardinality(Occurrences(es, k)) >= 2}

\* C28: duplicate keys resolve identically in all three layouts.  For a key k
\* that occurs several times, find of each layout returns the value of the
\* first occurrence of k in the sorted order the table was built from, so
\* that tables built from the same sorted order return the same value, the
\* one Sorted find returns.
C28_DuplicatesFirst ==
    (\A l \in Layouts : BuiltOnce(l, "a"))
        => \A k \in RepeatedKeys(entries) :
              /\ \A l \in Layouts :
                    /\ SortedOrderOf(l) = SortEntries(entries)
                    /\ FindIn(l, "a", k).found
                    /\ FindIn(l, "a", k).val = FirstValue(SortedOrderOf(l), k)
              /\ \A l \in {"eytzinger", "veb"} :
                    SortedOrderOf(l) = SortedOrderOf("sorted")
                        => FindIn(l, "a", k).val = FindIn("sorted", "a", k).val

C28_Witness ==
    /\ \A l \in Layouts : BuiltOnce(l, "a")
    /\ res.op = "find"
    /\ res.layout = "veb"
    /\ Len(entries) >= 5
    /\ res.target \in RepeatedKeys(entries)
    /\ \A l \in Layouts : SortedOrderOf(l) = SortedOrderOf("sorted")
    /\ res.ret.val = FirstValue(SortedOrderOf("sorted"), res.target)
    /\ res.ret.idx # vebLookup["a"].root_idx

\* the pool entry the order map resolves id to
LiveOrder(b, id) ==
    At(b.order_pool, At(b.slots, MapFind(b.slots, id).idx).value)

RECURSIVE QuantitySum(_, _)
QuantitySum(b, ids) ==
    IF ids = {} THEN 0
    ELSE LET id == CHOOSE x \in ids : TRUE
         IN LiveOrder(b, id).quantity + QuantitySum(b, ids \ {id})

\* the sum of the quantities of the live orders whose current price is price
LiveVolumeAt(b, price) ==
    QuantitySum(b, {id \in LiveOrders(b) : LiveOrder(b, id).price = price})

\* C29: OrderBook volume invariant.  After any sequence of add_order,
\* cancel_order and modify_order calls with in-range prices, add_order with an
\* id that is already live included, get_volume_at_price(p) is for every
\* price p the sum of the quantities of the live orders whose current price
\* is p.
C29_VolumeIsLiveSum ==
    orderBook.status = "ok"
        => \A price \in Prices :
              get_volume_at_price(orderBook, price)
                  = LiveVolumeAt(orderBook, price)

\* the slots of the order map that hold neither a key nor a tombstone
EmptySlots(b) == {p \in 0..(CAPACITY - 1) : At(b.slots, p).key = 0}

\* C30: OrderMap probing always terminates.  After any sequence of add_order
\* and cancel_order calls with at most MAX_ORDERS orders live at any time,
\* tombstone reuse keeps at least one slot empty, so the probe loops of
\* insert, find and erase end after finitely many steps for every key, one
\* that is not present included.
C30_ProbingTerminates ==
    /\ orderBook.status # "hung"
    /\ orderBook.status = "ok"
          => /\ EmptySlots(orderBook) # {}
             /\ \A id \in OrderIds :
                   /\ ~MapFind(orderBook.slots, id).hung
                   /\ ~MapErase(orderBook.slots, id).hung
                   /\ ~MapInsert(orderBook.slots, id, 0).hung

====
